---- MODULE Spec2Model ----
(***************************************************************************)
(* Model of the node orchestration and batch-dispatch engine of            *)
(* servidorApi:                                                            *)
(*   - ProcesadorLoteIndividual (services/procesador_imagen_individual.py) *)
(*     the batch coordinator over a ThreadPoolExecutor;                    *)
(*   - BalanceadorCargaNodos / ClienteNodoWorker                           *)
(*     (services/ClienteNodoWorker.py), the stateless load balancer and    *)
(*     the remote job client;                                              *)
(*   - GestorNodosImpl (services/gestor_nodos.py), the node registry       *)
(*     guarded by a lock.                                                  *)
(* Node ids are modelled as the integers 1..NNodos; the integer order      *)
(* stands for the lexicographic order of the ids ("worker01" < "worker02").*)
(* 0 stands for None / NULL wherever a node id or a thread id is optional. *)
(* Six specifications share the variables, each moving its own component   *)
(* and leaving the others at rest:                                         *)
(*   Spec       the batch coordinator;                                     *)
(*   SpecNodos  the registry and the threads that call it;                 *)
(*   SpecSel    node selection called again and again;                     *)
(*   SpecEnvio  dispatches of the remote job client;                       *)
(*   SpecPool   the executor's queue and threads under several batches;    *)
(*   SpecConsulta  the status, detail and history queries on cache and     *)
(*              store, with batches of several owners and restarts.       *)
(***************************************************************************)
EXTENDS Integers, Sequences, FiniteSets, TLC

\* ------------------------------------------------------------------ bounds
NNodos == 2
MaxImagenes == 2
MaxWorkers == 2
NUsuarios == 2
MaxCarga == 1
MaxLotes == 2

Nodos == 1..NNodos
Lotes == {1}             \* the coordinator is followed through one batch
Usuarios == 1..NUsuarios
Cargas == 0..MaxCarga
None == 0

VARIABLES
    \* --- ProcesadorLoteIndividual
    db,             \* table procesamientos_individuales: id_procesamiento -> row
    lotes_activos,  \* self.lotes_activos: id_lote -> cache entry
    cola,           \* work queue of self.executor (FIFO)
    lotePc,         \* position of _procesar_lote_async of each batch
    loteK,          \* loop index of _procesar_lote_async (submit loop / timeout loop)
    loteCont,       \* its locals completados, errores
    recogidos,      \* futures already yielded to it by as_completed
    vencido,        \* as_completed raised its TimeoutError for the batch
    forzados,       \* jobs the timeout handler has set to 'error'
    imgPc,          \* position of _procesar_imagen_individual of each job
    imgNodo,        \* the node obtener_nodo_optimo returned to it (None: none)
    imgRes,         \* its local resultado (then the value of its future)
    imgHist,        \* what it has done so far: calls of obtener_nodo_optimo
                    \* (sel), whether one returned a node (conNodo), calls of
                    \* proxy.procesar_con_archivo (inv)
    borrados,       \* the jobs whose temporary input file has been removed
    aliasTimeout,   \* concurrent.futures.TimeoutError is the builtin TimeoutError
    \* --- GestorNodosImpl (gestor_nodos.py) and the threads that call it
    nodos_registrados,  \* self.nodos_registrados: insertion order and id -> info
    lock,           \* self.lock: the thread that holds it (None: free)
    hiloPc,         \* position of each calling thread
    hiloK,          \* index of the loop over nodos_registrados.items() it is in
    nodos_activos,  \* its local list nodos_activos
    mejor_nodo,     \* the node obtener_nodo_disponible returned to it
    marcados,       \* nodes marked inactive after a failed dispatch and not
                    \* probed successfully since
    \* --- select_node called again and again while the cluster changes
    nsLista,        \* the name server's listing "nodo.*", in its order
    nodoEst,        \* what each node answers to a probe now
    selUlt,         \* the last call: who was called, what it returned
    selCambio,      \* what has changed since: "nada", "orden", "estado"
    resumen,        \* what obtener_estado_cluster returned, nothing having
                    \* changed since
    \* --- ClienteNodoWorker.enviar_trabajo_con_archivos, one call at a time
    envPc,          \* position of the call
    envArgs,        \* its node, whether its ruta_entrada exists, its proxy,
                    \* how its remote call ended
    envRes,         \* the dict it returns
    envInvocado,    \* it has invoked proxy.procesar_con_archivo
    dirOk,          \* the name server resolves "nodo.<n>" now
    nodoVivo,       \* the node is up now
    \* --- self.executor under several batches
    pool_cola,      \* its work queue (FIFO): <<"lote", b>> and <<"img", j>>
    pool_lote,      \* position of each batch: procesar_lote, then its
                    \* _procesar_lote_async
    pool_img,       \* sequence of the jobs created: batch, position of the
                    \* job's task, estado of its row
    pool_ret,       \* the ids_procesamiento procesar_lote returned
    pool_cerrado,   \* shutdown(): "abierto" before the call, "cerrando" while
                    \* executor.shutdown(wait=True) waits, "cerrado" after
    \* --- queries (obtener_estado_lote, obtener_detalle_imagenes,
    \*     obtener_historial_usuario) on db and lotes_activos
    reloj,          \* the last datetime.now() a batch got as fecha_inicio
    ultConsulta,    \* the last query, if neither rows nor cache have changed
                    \* since: its arguments and what it returned
    \* --- ProcesadorLotesImpl.crear_solicitud_procesamiento and its threads
    solPc,          \* position of the call
    solN,           \* len(imagenes)
    solK,           \* index of the loop it is in (start loop / join loop)
    hilos,          \* the thread of each image: its position and the 'exito'
                    \* of its local resultado
    imagenes_bd,    \* estado of the ImagenServidor row of each image
    resultados,     \* the list the threads append to
    retorno         \* the dict the call returns

varsLote == <<db, lotes_activos, cola, lotePc, loteK, loteCont, recogidos,
              vencido, forzados, imgPc, imgNodo, imgRes, imgHist, borrados,
              aliasTimeout>>

varsNodos == <<nodos_registrados, lock, hiloPc, hiloK, nodos_activos,
               mejor_nodo, marcados>>

varsSel == <<nsLista, nodoEst, selUlt, selCambio, resumen>>

varsEnvio == <<envPc, envArgs, envRes, envInvocado, dirOk, nodoVivo>>

varsPool == <<pool_cola, pool_lote, pool_img, pool_ret, pool_cerrado>>

varsCons == <<reloj, ultConsulta>>

varsSol == <<solPc, solN, solK, hilos, imagenes_bd, resultados, retorno>>

vars == <<varsLote, varsNodos, varsSel, varsEnvio, varsPool, varsCons, varsSol>>

\* What the actions of one component leave alone: the other components.
otrosLote == <<varsNodos, varsSel, varsEnvio, varsPool, varsCons, varsSol>>
otrosNodos == <<varsLote, varsSel, varsEnvio, varsPool, varsCons, varsSol>>
otrosSel == <<varsLote, varsNodos, varsEnvio, varsPool, varsCons, varsSol>>
otrosEnvio == <<varsLote, varsNodos, varsSel, varsPool, varsCons, varsSol>>
otrosPool == <<varsLote, varsNodos, varsSel, varsEnvio, varsCons, varsSol>>
\* The queries read db and lotes_activos, which the batches write.
otrosCons == <<cola, lotePc, loteK, loteCont, recogidos, vencido, forzados,
               imgPc, imgNodo, imgRes, imgHist, borrados, aliasTimeout,
               varsNodos, varsSel, varsEnvio, varsPool, varsSol>>
otrosSol == <<varsLote, varsNodos, varsSel, varsEnvio, varsPool, varsCons>>

\* ------------------------------------------------- generic sequence helpers
RECURSIVE SumaSeq(_)
SumaSeq(s) == IF s = <<>> THEN 0 ELSE Head(s) + SumaSeq(Tail(s))

EnSeq(x, s) == \E i \in 1..Len(s) : s[i] = x

Rango(s) == {s[i] : i \in 1..Len(s)}

\* ascending sequence of the integers of a finite set
RECURSIVE SeqDe(_)
SeqDe(S) == IF S = {} THEN <<>>
            ELSE LET m == CHOOSE x \in S : \A y \in S : x <= y
                 IN <<m>> \o SeqDe(S \ {m})

\* ------------------------------------------------------------ load balancer
\* What ClienteNodoWorker.obtener_estado_nodo returns for one node: None
\* (resp = FALSE: no proxy, or the call failed) or the node's own report.
SinRespuesta == [resp |-> FALSE, estado |-> "", trabajos |-> 0]
Sondeos == {SinRespuesta} \cup
           {[resp |-> TRUE, estado |-> e, trabajos |-> c] :
                e \in {"activo", "inactivo"}, c \in Cargas}

\* What listar_nodos_disponibles can return: the keys of the name server's
\* listing, in the listing's order ([] when the name server fails).
Listados == {s \in UNION {[1..k -> Nodos] : k \in 0..NNodos} :
                \A i, j \in 1..Len(s) : i # j => s[i] # s[j]}

\* The name server cannot be reached: _obtener_nameserver raises
\* ConnectionError, locate_ns raises NamingError.
NsCaido == <<None>>
RespuestasNs == Listados \cup {NsCaido}

\* ClienteNodoWorker.listar_nodos_disponibles, ns being what the name server
\* answers: every exception is caught and [] returned.
listar_nodos_disponibles(ns) == IF ns = NsCaido THEN <<>> ELSE ns

\* (mutation of MinPy: the last element whose key is smallest)
RECURSIVE MinPy_Ultimo(_, _, _)
MinPy_Ultimo(s, est, mejor) ==
    IF s = <<>> THEN mejor
    ELSE MinPy_Ultimo(Tail(s), est,
                      IF est[Head(s)].trabajos <= est[mejor].trabajos
                      THEN Head(s) ELSE mejor)

\* Python's min(iterable, key=...): the first element whose key is smallest.
RECURSIVE MinPy(_, _, _)
MinPy(s, est, mejor) ==
    IF s = <<>> THEN mejor
    ELSE MinPy(Tail(s), est,
               IF est[Head(s)].trabajos < est[mejor].trabajos
               THEN Head(s) ELSE mejor)

\* (mutation of ObtenerNodoOptimo: a node whose probe failed or that reports
\* another estado is kept among the candidates)
ObtenerNodoOptimo_SinFiltro(nodos, est) ==
    IF nodos = <<>> THEN None
    ELSE MinPy(Tail(nodos), est, Head(nodos))

\* BalanceadorCargaNodos.obtener_nodo_optimo, given the listing and the
\* answer of every probe (None from obtener_estado_nodo when the probe or the
\* proxy fails). No statement of its try block raises for these inputs; what
\* else is raised there ends in "except Exception: return None".
ObtenerNodoOptimo(nodos, est) ==
    IF nodos = <<>> THEN None
    ELSE LET activo(n) == est[n].resp /\ est[n].estado = "activo"
             estados == SelectSeq(nodos, activo)
         IN IF estados = <<>> THEN None
            ELSE MinPy(Tail(estados), est, Head(estados))

\* ---------------------------------------------------------- remote job client
\* How proxy.procesar_con_archivo ends: the node answers success with or
\* without an encoded result, it answers failure with an error message or
\* without one ("fallo_mudo"), or the call raises.
Remotos == {"ok_con_imagen", "ok_sin_imagen", "fallo_nodo", "fallo_mudo",
            "timeout", "comunicacion", "excepcion"}

\* The dict ClienteNodoWorker.enviar_trabajo_con_archivos returns.
\*   proxyOk  obtener_proxy_nodo returned a proxy
\*   existe   os.path.exists(ruta_entrada)
\*   leeOk    opening and reading the input file did not raise
\*   remoto   how proxy.procesar_con_archivo ended
\*   guardaOk writing the decoded result did not raise
\*   nodoResp the 'nodo' key of the node's own answer (None: no such key)
\* nodo = None stands for a dict without the key 'nodo'; ruta = FALSE for one
\* without 'ruta_resultado'.
Fallo(error, nodo) == [exito |-> FALSE, error |-> error, nodo |-> nodo, ruta |-> FALSE]

\* (mutation of ResultadoEnvio: the last except branch returns no message)
ResultadoEnvio_SinMensaje(n, proxyOk, existe, leeOk, remoto, guardaOk, nodoResp) ==
    IF ~proxyOk THEN Fallo("Nodo no disponible", n)
    ELSE IF ~existe THEN Fallo("Archivo de entrada no existe", None)
    ELSE IF ~leeOk THEN Fallo("excepcion", n)
    ELSE CASE remoto = "timeout" -> Fallo("Timeout despues de 300s", n)
           [] remoto = "comunicacion" -> Fallo("Error de comunicacion con el nodo", n)
           [] remoto = "excepcion" -> Fallo("", n)
           [] remoto = "fallo_nodo" -> Fallo("error del nodo", nodoResp)
           [] remoto = "fallo_mudo" -> Fallo("", nodoResp)
           [] remoto = "ok_sin_imagen" ->
                [exito |-> TRUE, error |-> "", nodo |-> nodoResp, ruta |-> FALSE]
           [] remoto = "ok_con_imagen" ->
                IF guardaOk
                THEN [exito |-> TRUE, error |-> "", nodo |-> nodoResp, ruta |-> TRUE]
                ELSE Fallo("Error guardando resultado", nodoResp)

ResultadoEnvio(n, proxyOk, existe, leeOk, remoto, guardaOk, nodoResp) ==
    IF ~proxyOk THEN Fallo("Nodo no disponible", n)
    ELSE IF ~existe THEN Fallo("Archivo de entrada no existe", None)
    ELSE IF ~leeOk THEN Fallo("excepcion", n)
    ELSE CASE remoto = "timeout" -> Fallo("Timeout despues de 300s", n)
           [] remoto = "comunicacion" -> Fallo("Error de comunicacion con el nodo", n)
           [] remoto = "excepcion" -> Fallo("excepcion", n)
           [] remoto = "fallo_nodo" -> Fallo("error del nodo", nodoResp)
           [] remoto = "fallo_mudo" -> Fallo("", nodoResp)
           [] remoto = "ok_sin_imagen" ->
                [exito |-> TRUE, error |-> "", nodo |-> nodoResp, ruta |-> FALSE]
           [] remoto = "ok_con_imagen" ->
                IF guardaOk
                THEN [exito |-> TRUE, error |-> "", nodo |-> nodoResp, ruta |-> TRUE]
                ELSE Fallo("Error guardando resultado", nodoResp)

\* (mutation of InvocaNodo: the input file is not tested)
InvocaNodo_SinComprobar(proxyOk, existe, leeOk) == proxyOk /\ leeOk

\* Whether enviar_trabajo_con_archivos calls proxy.procesar_con_archivo.
InvocaNodo(proxyOk, existe, leeOk) == proxyOk /\ existe /\ leeOk

\* ------------------------------------------------------- batch coordinator
Desconocido == -1       \* id_nodo 'desconocido'
Ausente == -1           \* a key lotes_activos[id] does not hold yet

Ids(b) == lotes_activos[b].ids_procesamiento

\* Tasks that occupy a worker thread of self.executor.
ImgCorriendo == {"nodo", "remoto", "grabar", "retorno"}
LoteCorriendo == {"submit", "recoger", "timeout", "final", "except"}
Ocupados == Cardinality({j \in DOMAIN imgPc : imgPc[j] \in ImgCorriendo})
          + Cardinality({b \in Lotes : lotePc[b] \in LoteCorriendo})

\* future.done() of the job's future
Hecho(j) == imgPc[j] = "fin"

\* ruta_entrada LIKE '%lote_<id_lote>%'. A ruta_entrada is
\* <upload_dir>/lote_<id>/<timestamp>_<random>_<stem><ext>: lote is the batch
\* whose directory it lies in, nombre the batch id the stem of the uploaded
\* file spells after "lote_" (None: the stem spells no such thing). The
\* pattern matches either.
Like(ruta, b) == ruta.lote = b \/ ruta.nombre = b

\* _obtener_ids_procesamiento_por_lote: the rows of the user whose ruta_entrada
\* matches the pattern.
IdsPorLote(b, u) ==
    SeqDe({j \in DOMAIN db : db[j].id_usuario = u /\ Like(db[j].ruta_entrada, b)})

\* (mutant) 'fallido' as soon as one job has failed
EstadoGeneral_UnError(total, completados, errores) ==
    IF completados = total THEN "completado"
    ELSE IF errores > 0 THEN "fallido"
    ELSE IF completados > 0 THEN "procesando"
    ELSE "pendiente"

\* The consolidated status obtener_estado_lote computes from the counts.
EstadoGeneral(total, completados, errores) ==
    IF completados = total THEN "completado"
    ELSE IF errores = total THEN "fallido"
    ELSE IF completados > 0 \/ errores > 0 THEN "procesando"
    ELSE "pendiente"

NoEncontrado == [hallado |-> FALSE]

\* ProcesadorLoteIndividual.obtener_estado_lote (None is NoEncontrado).
obtener_estado_lote(b, u) ==
    LET enCache == b \in DOMAIN lotes_activos
        ids == IF enCache THEN Ids(b) ELSE IdsPorLote(b, u)
        filas == {j \in DOMAIN db : EnSeq(j, ids)}
        cuenta(e) == Cardinality({j \in filas : db[j].estado = e})
    IN IF enCache /\ lotes_activos[b].id_usuario # u THEN NoEncontrado
       ELSE IF filas = {} THEN NoEncontrado
       ELSE [hallado |-> TRUE,
             id_lote |-> b,
             estado |-> EstadoGeneral(Cardinality(filas), cuenta("completado"),
                                      cuenta("error")),
             total_imagenes |-> Cardinality(filas),
             completados |-> cuenta("completado"),
             errores |-> cuenta("error"),
             procesando |-> cuenta("procesando"),
             pendientes |-> cuenta("pendiente")]

\* The batch status _procesar_lote_async stores when it ends.
EstadoFinal(completados, total) ==
    IF completados = total THEN "completado"
    ELSE IF completados > 0 THEN "parcial"
    ELSE "fallido"

\* _actualizar_estado(id, estado, mensaje_error) on the row
ActualizarEstado(fila, estado, mensaje) ==
    [fila EXCEPT !.estado = estado,
                 !.mensaje_error = IF mensaje # "" THEN mensaje ELSE @]

\* The row update of _procesar_imagen_individual with the dispatch result.
GrabarResultado(fila, res) ==
    IF res.exito
    THEN [fila EXCEPT !.estado = "completado",
                      !.ruta_resultado = TRUE,
                      !.id_nodo = IF res.nodo = None THEN Desconocido ELSE res.nodo]
    ELSE [fila EXCEPT !.estado = "error",
                      !.mensaje_error = IF res.error = "" THEN "Error desconocido"
                                        ELSE res.error]

SinResultado == [exito |-> FALSE, error |-> "", nodo |-> None, ruta |-> FALSE]

SinHistoria == [sel |-> 0, conNodo |-> FALSE, inv |-> 0]

InitLote ==
    /\ db = <<>>
    /\ lotes_activos = <<>>
    /\ cola = <<>>
    /\ lotePc = [b \in Lotes |-> "nuevo"]
    /\ loteK = [b \in Lotes |-> 0]
    /\ loteCont = [b \in Lotes |-> [completados |-> 0, errores |-> 0]]
    /\ recogidos = [b \in Lotes |-> {}]
    /\ vencido = [b \in Lotes |-> FALSE]
    /\ forzados = {}
    /\ imgPc = <<>>
    /\ imgNodo = <<>>
    /\ imgRes = <<>>
    /\ imgHist = <<>>
    /\ borrados = {}
    /\ aliasTimeout \in BOOLEAN

\* Who submits batch b. User ids are interchangeable: the first batch is
\* taken to be user 1's, the next one is anybody's.
Duenos(b) == IF b = 1 THEN {1} ELSE {1, 2}

\* procesar_lote(id_lote, id_usuario, imagenes) with n images: the rows are
\* created 'pendiente', the cache entry is written and _procesar_lote_async
\* is submitted to the executor.
ProcesarLote(b, u, n) ==
    /\ lotePc[b] = "nuevo"
    /\ LET base == Len(db)
           nuevos == (base + 1)..(base + n)
           fila == [id_usuario |-> u, ruta_entrada |-> [lote |-> b, nombre |-> None],
                    estado |-> "pendiente",
                    mensaje_error |-> "", id_nodo |-> None, ruta_resultado |-> FALSE]
       IN /\ db' = db \o [i \in 1..n |-> fila]
          /\ lotes_activos' = lotes_activos @@
                (b :> [id_usuario |-> u, total_imagenes |-> n,
                       ids_procesamiento |-> [i \in 1..n |-> base + i],
                       estado |-> "procesando", completados |-> Ausente,
                       errores |-> Ausente, fecha_fin |-> FALSE])
          /\ imgPc' = imgPc \o [i \in 1..n |-> "creado"]
          /\ imgNodo' = imgNodo \o [i \in 1..n |-> None]
          /\ imgRes' = imgRes \o [i \in 1..n |-> SinResultado]
          /\ imgHist' = imgHist \o [i \in 1..n |-> SinHistoria]
    /\ cola' = Append(cola, <<"lote", b>>)
    /\ lotePc' = [lotePc EXCEPT ![b] = "cola"]
    /\ UNCHANGED <<loteK, loteCont, recogidos, vencido, forzados, aliasTimeout>>
    /\ UNCHANGED borrados
    /\ UNCHANGED otrosLote

\* A free worker thread of the executor takes the oldest queued work item.
TomarLote(b) ==
    /\ cola # <<>> /\ Head(cola) = <<"lote", b>>
    /\ Ocupados < MaxWorkers
    /\ cola' = Tail(cola)
    /\ lotePc' = [lotePc EXCEPT ![b] = "submit"]
    /\ loteK' = [loteK EXCEPT ![b] = 1]
    /\ UNCHANGED <<db, lotes_activos, loteCont, recogidos, vencido, forzados,
                   imgPc, imgNodo, imgRes, aliasTimeout>>
    /\ UNCHANGED imgHist
    /\ UNCHANGED borrados
    /\ UNCHANGED otrosLote

\* ... for an image task, _procesar_imagen_individual starts on that thread
\* and calls _actualizar_estado(id, 'procesando').
TomarImagen(j) ==
    /\ cola # <<>> /\ Head(cola) = <<"img", j>>
    /\ Ocupados < MaxWorkers
    /\ cola' = Tail(cola)
    /\ db' = [db EXCEPT ![j] = ActualizarEstado(@, "procesando", "")]
    /\ imgPc' = [imgPc EXCEPT ![j] = "nodo"]
    /\ UNCHANGED <<lotes_activos, lotePc, loteK, loteCont, recogidos, vencido,
                   forzados, imgNodo, imgRes, aliasTimeout>>
    /\ UNCHANGED imgHist
    /\ UNCHANGED borrados
    /\ UNCHANGED otrosLote

\* _procesar_lote_async, one turn of the loop that submits a task per image.
SubmitImagen(b) ==
    /\ lotePc[b] = "submit"
    /\ LET k == loteK[b]
           j == Ids(b)[k]
       IN /\ cola' = Append(cola, <<"img", j>>)
          /\ imgPc' = [imgPc EXCEPT ![j] = "cola"]
          /\ loteK' = [loteK EXCEPT ![b] = k + 1]
          /\ lotePc' = [lotePc EXCEPT ![b] =
                            IF k = Len(Ids(b)) THEN "recoger" ELSE "submit"]
    /\ UNCHANGED <<db, lotes_activos, loteCont, recogidos, vencido, forzados,
                   imgNodo, imgRes, aliasTimeout>>
    /\ UNCHANGED imgHist
    /\ UNCHANGED borrados
    /\ UNCHANGED otrosLote

\* _procesar_lote_async, one turn of the as_completed loop: a finished future
\* is yielded and counted; after the last one the loop ends.
Recoger(b, j) ==
    /\ lotePc[b] = "recoger"
    /\ EnSeq(j, Ids(b)) /\ Hecho(j) /\ j \notin recogidos[b]
    /\ loteCont' = [loteCont EXCEPT ![b] =
                        IF imgRes[j].exito
                        THEN [@ EXCEPT !.completados = @ + 1]
                        ELSE [@ EXCEPT !.errores = @ + 1]]
    /\ recogidos' = [recogidos EXCEPT ![b] = @ \cup {j}]
    /\ lotePc' = [lotePc EXCEPT ![b] =
                      IF recogidos'[b] = Rango(Ids(b)) THEN "final" ELSE "recoger"]
    /\ UNCHANGED <<db, lotes_activos, cola, loteK, vencido, forzados, imgPc,
                   imgNodo, imgRes, aliasTimeout>>
    /\ UNCHANGED imgHist
    /\ UNCHANGED borrados
    /\ UNCHANGED otrosLote

\* as_completed(futures, timeout=3600) raises its TimeoutError: the hour has
\* passed and some future has not been yielded. 'except TimeoutError' catches
\* it only where concurrent.futures.TimeoutError is the builtin (Python 3.11
\* on); before, the outer 'except Exception' does.
Vence(b) ==
    /\ lotePc[b] = "recoger"
    /\ recogidos[b] # Rango(Ids(b))
    /\ vencido' = [vencido EXCEPT ![b] = TRUE]
    /\ lotePc' = [lotePc EXCEPT ![b] = IF aliasTimeout THEN "timeout" ELSE "except"]
    /\ loteK' = [loteK EXCEPT ![b] = 1]
    /\ UNCHANGED <<db, lotes_activos, cola, loteCont, recogidos, forzados, imgPc,
                   imgNodo, imgRes, aliasTimeout>>
    /\ UNCHANGED imgHist
    /\ UNCHANGED borrados
    /\ UNCHANGED otrosLote

\* The timeout handler, one turn of 'for future in futures': a future that is
\* not done gets its row set to 'error' and is counted as an error.
Forzar(b) ==
    /\ lotePc[b] = "timeout"
    /\ LET k == loteK[b]
           j == Ids(b)[k]
       IN /\ IF ~Hecho(j)
             THEN /\ db' = [db EXCEPT ![j] =
                              ActualizarEstado(@, "error", "Timeout en procesamiento")]
                  /\ loteCont' = [loteCont EXCEPT ![b].errores = @ + 1]
                  /\ forzados' = forzados \cup {j}
             ELSE UNCHANGED <<db, loteCont, forzados>>
          /\ loteK' = [loteK EXCEPT ![b] = k + 1]
          /\ lotePc' = [lotePc EXCEPT ![b] =
                            IF k = Len(Ids(b)) THEN "final" ELSE "timeout"]
    /\ UNCHANGED <<lotes_activos, cola, recogidos, vencido, imgPc, imgNodo, imgRes,
                   aliasTimeout>>
    /\ UNCHANGED imgHist
    /\ UNCHANGED borrados
    /\ UNCHANGED otrosLote

\* _procesar_lote_async writes the final state of the batch into the cache.
Finalizar(b) ==
    /\ lotePc[b] = "final"
    /\ lotes_activos' = [lotes_activos EXCEPT ![b] =
           [@ EXCEPT !.estado = EstadoFinal(loteCont[b].completados, Len(Ids(b))),
                     !.completados = loteCont[b].completados,
                     !.errores = loteCont[b].errores,
                     !.fecha_fin = TRUE]]
    /\ lotePc' = [lotePc EXCEPT ![b] = "fin"]
    /\ UNCHANGED <<db, cola, loteK, loteCont, recogidos, vencido, forzados, imgPc,
                   imgNodo, imgRes, aliasTimeout>>
    /\ UNCHANGED imgHist
    /\ UNCHANGED borrados
    /\ UNCHANGED otrosLote

\* The outer 'except Exception' of _procesar_lote_async.
Except(b) ==
    /\ lotePc[b] = "except"
    /\ lotes_activos' = [lotes_activos EXCEPT ![b].estado = "error"]
    /\ lotePc' = [lotePc EXCEPT ![b] = "fin"]
    /\ UNCHANGED <<db, cola, loteK, loteCont, recogidos, vencido, forzados, imgPc,
                   imgNodo, imgRes, aliasTimeout>>
    /\ UNCHANGED imgHist
    /\ UNCHANGED borrados
    /\ UNCHANGED otrosLote

\* Every node obtener_nodo_optimo can return, over all listings and all
\* answers of the probes (None: no eligible node).
Elecciones == {ObtenerNodoOptimo(nodos, est) :
                   nodos \in Listados, est \in [Nodos -> Sondeos]}

\* The dicts enviar_trabajo_con_archivos returns to the coordinator for node n.
\* The coordinator copies 'error' into the row and never inspects it, so its
\* specification draws the dispatch from these cases: the node answers with or
\* without an encoded result, the call ends in a communication error, the
\* input file is missing.
RemotosLote == {"ok_con_imagen", "ok_sin_imagen", "comunicacion"}

\* The one of them that is returned before proxy.procesar_con_archivo is
\* reached: the input file is missing.
SinInvocar == Fallo("Archivo de entrada no existe", None)

ResultadosEnvio ==
    [n \in Nodos |->
        {ResultadoEnvio(n, TRUE, existe, TRUE, remoto, TRUE, nodoResp) :
            existe \in BOOLEAN, remoto \in RemotosLote, nodoResp \in {None, n}}]

\* GestorNodosImpl.ejecutar_trabajo_en_nodo (GestorNodoImpl.py), first half:
\* the balancer lists and probes the nodes and picks one, or there is none.
Seleccionar(j) ==
    /\ imgPc[j] = "nodo"
    /\ \E n \in Elecciones :
            /\ imgNodo' = [imgNodo EXCEPT ![j] = n]
            /\ imgHist' = [imgHist EXCEPT ![j].sel = @ + 1,
                                          ![j].conNodo = n # None]
            /\ IF n = None
               THEN /\ imgRes' = [imgRes EXCEPT ![j] =
                                     Fallo("No hay nodos disponibles", None)]
                    /\ imgPc' = [imgPc EXCEPT ![j] = "grabar"]
               ELSE /\ imgRes' = imgRes
                    /\ imgPc' = [imgPc EXCEPT ![j] = "remoto"]
    /\ UNCHANGED <<db, lotes_activos, cola, lotePc, loteK, loteCont, recogidos,
                   vencido, forzados, aliasTimeout>>
    /\ UNCHANGED borrados
    /\ UNCHANGED otrosLote

\* (mutation of Enviar: a failed dispatch is sent again)
Enviar_Reintenta(j) ==
    /\ imgPc[j] = "remoto"
    /\ \E res \in ResultadosEnvio[imgNodo[j]] :
         /\ imgRes' = [imgRes EXCEPT ![j] = res]
         /\ imgHist' = [imgHist EXCEPT ![j].inv =
                            IF res = SinInvocar THEN @ ELSE @ + 1]
         /\ imgNodo' = [imgNodo EXCEPT ![j] = IF res.exito THEN None ELSE @]
         /\ imgPc' = [imgPc EXCEPT ![j] = IF res.exito THEN "grabar" ELSE "remoto"]
    /\ UNCHANGED <<db, lotes_activos, cola, lotePc, loteK, loteCont, recogidos,
                   vencido, forzados, aliasTimeout>>
    /\ UNCHANGED borrados
    /\ UNCHANGED otrosLote

\* Second half: enviar_trabajo_con_archivos on the chosen node returns.
Enviar(j) ==
    /\ imgPc[j] = "remoto"
    /\ \E res \in ResultadosEnvio[imgNodo[j]] :
         /\ imgRes' = [imgRes EXCEPT ![j] = res]
         /\ imgHist' = [imgHist EXCEPT ![j].inv =
                            IF res = SinInvocar THEN @ ELSE @ + 1]
    /\ imgNodo' = [imgNodo EXCEPT ![j] = None]
    /\ imgPc' = [imgPc EXCEPT ![j] = "grabar"]
    /\ UNCHANGED <<db, lotes_activos, cola, lotePc, loteK, loteCont, recogidos,
                   vencido, forzados, aliasTimeout>>
    /\ UNCHANGED borrados
    /\ UNCHANGED otrosLote

\* The dict _procesar_imagen_individual returns: 'exito' and 'error' of resultado.
ValorRetorno(res) == [exito |-> res.exito, error |-> res.error, nodo |-> None,
                      ruta |-> FALSE]

\* The row is updated with the result and committed; what is left of resultado
\* is the value the function is about to return.
Grabar(j) ==
    /\ imgPc[j] = "grabar"
    /\ db' = [db EXCEPT ![j] = GrabarResultado(@, imgRes[j])]
    /\ imgRes' = [imgRes EXCEPT ![j] = ValorRetorno(@)]
    /\ imgPc' = [imgPc EXCEPT ![j] = "retorno"]
    /\ UNCHANGED <<lotes_activos, cola, lotePc, loteK, loteCont, recogidos, vencido,
                   forzados, imgNodo, aliasTimeout>>
    /\ UNCHANGED imgHist
    /\ UNCHANGED borrados
    /\ UNCHANGED otrosLote

\* (mutation of Excepcion: the except branch passes no message)
Excepcion_SinMensaje(j, ok) ==
    /\ imgPc[j] = "grabar"
    /\ db' = IF ok THEN [db EXCEPT ![j] = ActualizarEstado(@, "error", "")]
             ELSE db
    /\ imgRes' = [imgRes EXCEPT ![j] = Fallo("", None)]
    /\ imgPc' = [imgPc EXCEPT ![j] = "fin"]
    /\ UNCHANGED <<lotes_activos, cola, lotePc, loteK, loteCont, recogidos, vencido,
                   forzados, imgNodo, aliasTimeout>>
    /\ UNCHANGED imgHist
    /\ UNCHANGED borrados
    /\ UNCHANGED otrosLote

\* A statement of the try block of _procesar_imagen_individual raises, here
\* the session or the commit of the row update: the except branch calls
\* _actualizar_estado(id, 'error', str(e)), which writes the row or, when it
\* fails too, logs and writes nothing (ok), and the task returns a failed
\* outcome carrying str(e).
Excepcion(j, ok) ==
    /\ imgPc[j] = "grabar"
    /\ db' = IF ok THEN [db EXCEPT ![j] = ActualizarEstado(@, "error", "excepcion")]
             ELSE db
    /\ imgRes' = [imgRes EXCEPT ![j] = Fallo("excepcion", None)]
    /\ imgPc' = [imgPc EXCEPT ![j] = "fin"]
    /\ UNCHANGED <<lotes_activos, cola, lotePc, loteK, loteCont, recogidos, vencido,
                   forzados, imgNodo, aliasTimeout>>
    /\ UNCHANGED imgHist
    /\ UNCHANGED borrados
    /\ UNCHANGED otrosLote

\* _procesar_imagen_individual returns: after a successful dispatch
\* _limpiar_archivos_temporales removes the temporary input file (a removal
\* that fails is logged and changes nothing else; it is taken to succeed);
\* the future is done, the thread free.
Retornar(j) ==
    /\ imgPc[j] = "retorno"
    /\ imgPc' = [imgPc EXCEPT ![j] = "fin"]
    /\ borrados' = IF imgRes[j].exito THEN borrados \cup {j} ELSE borrados
    /\ UNCHANGED <<db, lotes_activos, cola, lotePc, loteK, loteCont, recogidos,
                   vencido, forzados, imgNodo, imgRes, aliasTimeout>>
    /\ UNCHANGED imgHist
    /\ UNCHANGED otrosLote

NextLote ==
    \/ \E b \in Lotes : \E u \in Duenos(b), n \in 1..MaxImagenes :
          ProcesarLote(b, u, n)
    \/ \E b \in Lotes : TomarLote(b)
    \/ \E j \in DOMAIN imgPc : TomarImagen(j)
    \/ \E b \in Lotes : SubmitImagen(b)
    \/ \E b \in Lotes, j \in DOMAIN imgPc : Recoger(b, j)
    \/ \E b \in Lotes : Vence(b)
    \/ \E b \in Lotes : Forzar(b)
    \/ \E b \in Lotes : Finalizar(b)
    \/ \E b \in Lotes : Except(b)
    \/ \E j \in DOMAIN imgPc : Seleccionar(j)
    \/ \E j \in DOMAIN imgPc : Enviar(j)
    \/ \E j \in DOMAIN imgPc : Grabar(j)
    \/ \E j \in DOMAIN imgPc, ok \in BOOLEAN : Excepcion(j, ok)
    \/ \E j \in DOMAIN imgPc : Retornar(j)

\* ---------------------------------------------- node registry (gestor_nodos.py)
Hilos == {1, 2}         \* calling threads: two are enough to interleave
LimiteTrabajos == 5     \* "if trabajos_activos < 5"
\* the loads a node reports to the registry: idle, just under the limit, at it
CargasReg == {0, LimiteTrabajos - 1, LimiteTrabajos}

\* How a probe proxy.obtener_estado() of a node ends: it raises (ok = FALSE)
\* or returns the node's report.
SondeoFallido == [ok |-> FALSE, trabajos |-> 0]
SondeosReg == {SondeoFallido} \cup {[ok |-> TRUE, trabajos |-> c] : c \in CargasReg}

\* An entry of nodos_registrados. proxy: the key 'proxy' is there; trabajos:
\* estado.get('trabajos_activos', 0) of the stored 'estado' ({} when absent).
\* InfoSinProxy is the entry of the except branch of the discovery: 'uri',
\* 'activo': False, 'ultima_comprobacion' and 'error': str(e). No code reads
\* or removes the key 'error', which is not followed further.
InfoActivo(c) == [activo |-> TRUE, proxy |-> TRUE, trabajos |-> c]
InfoSinProxy == [activo |-> FALSE, proxy |-> FALSE, trabajos |-> 0]

\* The entry _descubrir_nodos_existentes stores for a node that answered r.
InfoDescubierto(r) == IF r.ok THEN InfoActivo(r.trabajos) ELSE InfoSinProxy

\* (mutation of ActualizarNodo: a probe that raises also resets the stored
\* report)
ActualizarNodo_Cero(i, r) ==
    IF r.ok THEN InfoActivo(r.trabajos)
    ELSE [i EXCEPT !.activo = FALSE, !.trabajos = 0]

\* One iteration of the loop of _actualizar_estado_nodos: with or without
\* 'proxy' a probe that answers stores the report and sets 'activo'; one that
\* raises clears 'activo' and leaves the rest.
ActualizarNodo(i, r) ==
    IF r.ok THEN InfoActivo(r.trabajos) ELSE [i EXCEPT !.activo = FALSE]

\* The test of the loop of obtener_nodo_disponible on one entry.
Elegible(i) == i.activo /\ i.trabajos < LimiteTrabajos

\* list.sort(key=trabajos_activos): stable insertion into a sorted list.
RECURSIVE Insertar(_, _)
Insertar(x, s) ==
    IF s = <<>> THEN <<x>>
    ELSE IF x.trabajos < Head(s).trabajos THEN <<x>> \o s
    ELSE <<Head(s)>> \o Insertar(x, Tail(s))

RECURSIVE OrdenarPorCarga(_)
OrdenarPorCarga(s) ==
    IF s = <<>> THEN <<>>
    ELSE Insertar(s[Len(s)], OrdenarPorCarga(SubSeq(s, 1, Len(s) - 1)))

\* What obtener_nodo_disponible returns from its list nodos_activos.
MejorNodo(activos) ==
    IF activos = <<>> THEN None ELSE Head(OrdenarPorCarga(activos)).id_nodo

OrdenReg == nodos_registrados.orden
InfoReg == nodos_registrados.info

\* The registry no thread uses: the state of the other specifications.
NodosQuieto ==
    /\ nodos_registrados = [orden |-> <<>>, info |-> <<>>]
    /\ lock = None
    /\ hiloPc = [t \in Hilos |-> "libre"]
    /\ hiloK = [t \in Hilos |-> 0]
    /\ nodos_activos = [t \in Hilos |-> <<>>]
    /\ mejor_nodo = [t \in Hilos |-> None]
    /\ marcados = {}

\* After __init__: the name server's listing (empty when it fails) with every
\* node probed once.
InitNodos ==
    /\ \E orden \in Listados :
       \E r \in [Rango(orden) -> SondeosReg] :
          nodos_registrados = [orden |-> orden,
                               info |-> [n \in Rango(orden) |-> InfoDescubierto(r[n])]]
    /\ lock = None
    /\ hiloPc = [t \in Hilos |-> "libre"]
    /\ hiloK = [t \in Hilos |-> 0]
    /\ nodos_activos = [t \in Hilos |-> <<>>]
    /\ mejor_nodo = [t \in Hilos |-> None]
    /\ marcados = {}

\* ejecutar_trabajo_en_nodo -> obtener_nodo_disponible ->
\* _actualizar_estado_nodos: "with self.lock:" is entered.
Adquirir(t) ==
    /\ hiloPc[t] = "libre"
    /\ lock = None
    /\ lock' = t
    /\ hiloPc' = [hiloPc EXCEPT ![t] = "refrescar"]
    /\ hiloK' = [hiloK EXCEPT ![t] = 1]
    /\ UNCHANGED <<nodos_registrados, nodos_activos, mejor_nodo, marcados>>
    /\ UNCHANGED otrosNodos

\* One iteration of the refresh loop, the lock held: the node is probed.
Sondear(t) ==
    /\ hiloPc[t] = "refrescar"
    /\ hiloK[t] <= Len(OrdenReg)
    /\ LET n == OrdenReg[hiloK[t]]
       IN \E r \in SondeosReg :
            /\ nodos_registrados' =
                 [nodos_registrados EXCEPT !.info[n] = ActualizarNodo(@, r)]
            /\ marcados' = IF r.ok THEN marcados \ {n} ELSE marcados
    /\ hiloK' = [hiloK EXCEPT ![t] = @ + 1]
    /\ UNCHANGED <<lock, hiloPc, nodos_activos, mejor_nodo>>
    /\ UNCHANGED otrosNodos

\* The refresh loop is over: the lock is released.
Soltar(t) ==
    /\ hiloPc[t] = "refrescar"
    /\ hiloK[t] > Len(OrdenReg)
    /\ lock' = None
    /\ hiloPc' = [hiloPc EXCEPT ![t] = IF OrdenReg = <<>> THEN "elegir" ELSE "filtrar"]
    /\ hiloK' = [hiloK EXCEPT ![t] = 1]
    /\ UNCHANGED <<nodos_registrados, nodos_activos, mejor_nodo, marcados>>
    /\ UNCHANGED otrosNodos

\* One iteration of the loop of obtener_nodo_disponible, no lock held: the
\* entry is read and, if eligible, appended to nodos_activos.
Filtrar(t) ==
    /\ hiloPc[t] = "filtrar"
    /\ LET n == OrdenReg[hiloK[t]]
           i == InfoReg[n]
       IN nodos_activos' =
            [nodos_activos EXCEPT ![t] =
                IF Elegible(i)
                THEN Append(@, [id_nodo |-> n, trabajos |-> i.trabajos])
                ELSE @]
    /\ hiloK' = [hiloK EXCEPT ![t] = @ + 1]
    /\ hiloPc' = [hiloPc EXCEPT ![t] =
                     IF hiloK[t] = Len(OrdenReg) THEN "elegir" ELSE "filtrar"]
    /\ UNCHANGED <<nodos_registrados, lock, mejor_nodo, marcados>>
    /\ UNCHANGED otrosNodos

\* obtener_nodo_disponible returns: the first of the sorted list, or None and
\* then ejecutar_trabajo_en_nodo returns its failure.
Elegir(t) ==
    /\ hiloPc[t] = "elegir"
    /\ mejor_nodo' = [mejor_nodo EXCEPT ![t] = MejorNodo(nodos_activos[t])]
    /\ hiloPc' = [hiloPc EXCEPT ![t] =
                     IF nodos_activos[t] = <<>> THEN "libre" ELSE "procesar"]
    /\ nodos_activos' = [nodos_activos EXCEPT ![t] = <<>>]
    /\ hiloK' = [hiloK EXCEPT ![t] = 0]
    /\ UNCHANGED <<nodos_registrados, lock, marcados>>
    /\ UNCHANGED otrosNodos

\* proxy.procesar(...) on the returned node: it returns a result, which is
\* returned as it is, or it raises.
Procesar(t) ==
    /\ hiloPc[t] = "procesar"
    /\ \E ok \in BOOLEAN :
         IF ok THEN /\ hiloPc' = [hiloPc EXCEPT ![t] = "libre"]
                    /\ mejor_nodo' = [mejor_nodo EXCEPT ![t] = None]
               ELSE /\ hiloPc' = [hiloPc EXCEPT ![t] = "marcar"]
                    /\ mejor_nodo' = mejor_nodo
    /\ UNCHANGED <<nodos_registrados, lock, hiloK, nodos_activos, marcados>>
    /\ UNCHANGED otrosNodos

\* (mutation of Marcar: the node that failed is removed from the registry)
Marcar_Borra(t) ==
    /\ hiloPc[t] = "marcar"
    /\ lock = None
    /\ nodos_registrados' =
         [orden |-> SelectSeq(OrdenReg, LAMBDA n : n # mejor_nodo[t]),
          info |-> [n \in DOMAIN InfoReg \ {mejor_nodo[t]} |-> InfoReg[n]]]
    /\ marcados' = marcados \ {mejor_nodo[t]}
    /\ hiloPc' = [hiloPc EXCEPT ![t] = "libre"]
    /\ mejor_nodo' = [mejor_nodo EXCEPT ![t] = None]
    /\ UNCHANGED <<lock, hiloK, nodos_activos>>
    /\ UNCHANGED otrosNodos

\* The except branch: under the lock the node is marked inactive.
Marcar(t) ==
    /\ hiloPc[t] = "marcar"
    /\ lock = None
    /\ nodos_registrados' =
         [nodos_registrados EXCEPT !.info[mejor_nodo[t]].activo = FALSE]
    /\ marcados' = marcados \cup {mejor_nodo[t]}
    /\ hiloPc' = [hiloPc EXCEPT ![t] = "libre"]
    /\ mejor_nodo' = [mejor_nodo EXCEPT ![t] = None]
    /\ UNCHANGED <<lock, hiloK, nodos_activos>>
    /\ UNCHANGED otrosNodos

NextNodos ==
    \/ \E t \in Hilos : Adquirir(t)
    \/ \E t \in Hilos : Sondear(t)
    \/ \E t \in Hilos : Soltar(t)
    \/ \E t \in Hilos : Filtrar(t)
    \/ \E t \in Hilos : Elegir(t)
    \/ \E t \in Hilos : Procesar(t)
    \/ \E t \in Hilos : Marcar(t)

\* ------------------------------------ node selection, one call after another
\* What a node answers to obtener_estado() when the registry or the balancer
\* probes it now (SinRespuesta: the call raises or there is no proxy to it).
SondeosSel == {SinRespuesta} \cup
              {[resp |-> TRUE, estado |-> e, trabajos |-> c] :
                   e \in {"activo", "inactivo"}, c \in CargasReg}

\* The probe of the registry sees of the answer that it came and its load.
SondeoDeRegistro(s) ==
    IF s.resp THEN [ok |-> TRUE, trabajos |-> s.trabajos] ELSE SondeoFallido

\* The nodes _descubrir_nodos_existentes goes through: none when locate_ns or
\* ns.list raises (its outer except only logs).
NodosEnNs(ns) == IF ns = NsCaido THEN <<>> ELSE ns

\* nodos_registrados after _descubrir_nodos_existentes, the name server
\* listing lista and the nodes answering est.
Descubrir(lista, est) ==
    [orden |-> lista,
     info |-> [n \in Rango(lista) |-> InfoDescubierto(SondeoDeRegistro(est[n]))]]

\* _actualizar_estado_nodos as a whole, no other thread in between.
RefrescarTodo(reg, est) ==
    [reg EXCEPT !.info = [n \in DOMAIN @ |->
                             ActualizarNodo(@[n], SondeoDeRegistro(est[n]))]]

\* The loop of obtener_nodo_disponible as a whole: nodos_activos at its end.
RECURSIVE FiltrarTodo(_, _)
FiltrarTodo(orden, info) ==
    IF orden = <<>> THEN <<>>
    ELSE LET n == Head(orden)
             resto == FiltrarTodo(Tail(orden), info)
         IN IF Elegible(info[n])
            THEN <<[id_nodo |-> n, trabajos |-> info[n].trabajos]>> \o resto
            ELSE resto

\* GestorNodosImpl.obtener_nodo_disponible run by one thread alone.
ObtenerNodoDisponible(reg, est) ==
    LET r == RefrescarTodo(reg, est)
    IN MejorNodo(FiltrarTodo(r.orden, r.info))

SinLlamada == [quien |-> "", res |-> None, repetida |-> FALSE]

\* capacidad_maxima as the nodes report it.
Capacidades == {0, LimiteTrabajos - 1}

SinResumen == [hecho |-> FALSE]

\* The sum of f over the nodes of the listing that answered.
RECURSIVE SumaRespondidos(_, _, _)
SumaRespondidos(nodos, est, f) ==
    IF nodos = <<>> THEN 0
    ELSE (IF est[Head(nodos)].resp THEN f[Head(nodos)] ELSE 0)
         + SumaRespondidos(Tail(nodos), est, f)

\* (mutation of obtener_estado_cluster: nodos_inactivos counts the nodes
\* that answered with another estado than 'activo')
obtener_estado_cluster_SinMudos(nodos, est, cap) ==
    LET activos == Len(SelectSeq(nodos, LAMBDA n : est[n].resp /\ est[n].estado = "activo"))
        usada == SumaRespondidos(nodos, est, [n \in Nodos |-> est[n].trabajos])
        total == SumaRespondidos(nodos, est, cap)
    IN [hecho |-> TRUE,
        total_nodos |-> Len(nodos),
        nodos_activos |-> activos,
        nodos_inactivos |-> Len(SelectSeq(nodos, LAMBDA n : est[n].resp /\ est[n].estado # "activo")),
        trabajos_en_proceso |-> usada,
        capacidad_total |-> total,
        capacidad_usada |-> usada,
        capacidad_disponible |-> total - usada]

\* BalanceadorCargaNodos.obtener_estado_cluster over the listing nodos, the
\* probes answering est and cap. Its except branch is not reached: neither
\* listar_nodos_disponibles nor obtener_estado_nodo raises.
obtener_estado_cluster(nodos, est, cap) ==
    LET activos == Len(SelectSeq(nodos, LAMBDA n : est[n].resp /\ est[n].estado = "activo"))
        usada == SumaRespondidos(nodos, est, [n \in Nodos |-> est[n].trabajos])
        total == SumaRespondidos(nodos, est, cap)
    IN [hecho |-> TRUE,
        total_nodos |-> Len(nodos),
        nodos_activos |-> activos,
        nodos_inactivos |-> Len(nodos) - activos,
        trabajos_en_proceso |-> usada,
        capacidad_total |-> total,
        capacidad_usada |-> usada,
        capacidad_disponible |-> total - usada]

SelQuieto ==
    /\ nsLista = <<>>
    /\ nodoEst = [n \in Nodos |-> SinRespuesta]
    /\ selUlt = SinLlamada
    /\ selCambio = "nada"
    /\ resumen = SinResumen

InitSel ==
    /\ nsLista \in RespuestasNs
    /\ nodoEst \in [Nodos -> SondeosSel]
    /\ selUlt = SinLlamada
    /\ selCambio = "nada"
    /\ resumen = SinResumen

\* The record of a call of quien that returned res.
Llamada(quien, res) ==
    [quien |-> quien, res |-> res,
     repetida |-> selUlt.quien = quien /\ selCambio = "nada"]

\* A node changes what it answers: it stops, starts, takes or finishes jobs.
CambiaNodo(n, s) ==
    /\ s # nodoEst[n]
    /\ nodoEst' = [nodoEst EXCEPT ![n] = s]
    /\ selCambio' = "estado"
    /\ UNCHANGED <<nsLista, selUlt>>
    /\ resumen' = SinResumen
    /\ UNCHANGED otrosSel

\* Nodes register or unregister with the name server, or it stops or starts
\* answering: the listing changes. Only its order changes when the same nodes
\* are listed.
CambiaListado(l) ==
    /\ l # nsLista
    /\ nsLista' = l
    /\ selCambio' = IF Rango(l) = Rango(nsLista) /\ selCambio # "estado"
                    THEN "orden" ELSE "estado"
    /\ UNCHANGED <<nodoEst, selUlt>>
    /\ resumen' = SinResumen
    /\ UNCHANGED otrosSel

\* (mutation of LlamarBalanceador: any of the least loaded active nodes)
LlamarBalanceador_Azar ==
    /\ LET act == {n \in Rango(listar_nodos_disponibles(nsLista)) :
                      nodoEst[n].resp /\ nodoEst[n].estado = "activo"}
           men == {n \in act : \A m \in act :
                      nodoEst[n].trabajos <= nodoEst[m].trabajos}
       IN \E r \in IF men = {} THEN {None} ELSE men :
             selUlt' = Llamada("balanceador", r)
    /\ selCambio' = "nada"
    /\ UNCHANGED <<nsLista, nodoEst>>
    /\ resumen' = SinResumen
    /\ UNCHANGED otrosSel

\* A call of BalanceadorCargaNodos.obtener_nodo_optimo.
LlamarBalanceador ==
    /\ selUlt' = Llamada("balanceador", ObtenerNodoOptimo(listar_nodos_disponibles(nsLista), nodoEst))
    /\ selCambio' = "nada"
    /\ UNCHANGED <<nsLista, nodoEst>>
    /\ resumen' = SinResumen
    /\ UNCHANGED otrosSel

\* A GestorNodosImpl is built and its obtener_nodo_disponible called
\* (routes/nodo_routes.py).
LlamarRegistro ==
    /\ selUlt' = Llamada("registro",
                         ObtenerNodoDisponible(Descubrir(NodosEnNs(nsLista), nodoEst), nodoEst))
    /\ selCambio' = "nada"
    /\ UNCHANGED <<nsLista, nodoEst>>
    /\ resumen' = SinResumen
    /\ UNCHANGED otrosSel

\* A call of BalanceadorCargaNodos.obtener_estado_cluster; cap is the
\* capacidad_maxima in each node's answer (0: the key is missing), which
\* nothing else reads.
ResumirCluster(cap) ==
    /\ resumen' = obtener_estado_cluster(listar_nodos_disponibles(nsLista),
                                         nodoEst, cap)
    /\ selUlt' = SinLlamada
    /\ selCambio' = "nada"
    /\ UNCHANGED <<nsLista, nodoEst>>
    /\ UNCHANGED otrosSel

NextSel ==
    \/ \E n \in Nodos, s \in SondeosSel : CambiaNodo(n, s)
    \/ \E l \in RespuestasNs : CambiaListado(l)
    \/ LlamarBalanceador
    \/ LlamarRegistro
    \/ \E cap \in [Nodos -> Capacidades] : ResumirCluster(cap)

\* --------------------------- a dispatch, with the node and the name server
SinEnvio == [nodo |-> None, existe |-> FALSE, proxy |-> FALSE, remoto |-> ""]

\* How proxy.procesar_con_archivo can end on a node that is up, or down.
RemotosDe(vivo) == IF vivo THEN Remotos ELSE {"timeout", "comunicacion"}

EnvioQuieto ==
    /\ envPc = "libre"
    /\ envArgs = SinEnvio
    /\ envRes = SinResultado
    /\ envInvocado = FALSE
    /\ dirOk = [n \in Nodos |-> TRUE]
    /\ nodoVivo = [n \in Nodos |-> TRUE]

InitEnvio ==
    /\ envPc = "libre"
    /\ envArgs = SinEnvio
    /\ envRes = SinResultado
    /\ envInvocado = FALSE
    /\ dirOk \in [Nodos -> BOOLEAN]
    /\ nodoVivo \in [Nodos -> BOOLEAN]

\* The name server starts or stops resolving "nodo.<n>".
CambiaDirectorio(n) ==
    /\ dirOk' = [dirOk EXCEPT ![n] = ~@]
    /\ UNCHANGED <<envPc, envArgs, envRes, envInvocado, nodoVivo>>
    /\ UNCHANGED otrosEnvio

\* The node goes down or comes up.
CambiaVivo(n) ==
    /\ nodoVivo' = [nodoVivo EXCEPT ![n] = ~@]
    /\ UNCHANGED <<envPc, envArgs, envRes, envInvocado, dirOk>>
    /\ UNCHANGED otrosEnvio

\* enviar_trabajo_con_archivos is called for node n, the input file of the
\* job there or not.
EnvIniciar(n, existe) ==
    /\ envPc = "libre"
    /\ envPc' = "local"
    /\ envArgs' = [nodo |-> n, existe |-> existe, proxy |-> FALSE, remoto |-> ""]
    /\ envRes' = SinResultado
    /\ envInvocado' = FALSE
    /\ UNCHANGED <<dirOk, nodoVivo>>
    /\ UNCHANGED otrosEnvio

\* Up to the remote call: the proxy is looked up, the file is tested and
\* read. The function returns here unless all three succeed.
EnvLocal ==
    /\ envPc = "local"
    /\ LET n == envArgs.nodo
           proxyOk == dirOk[n]
       IN \E leeOk \in BOOLEAN :
            /\ envArgs' = [envArgs EXCEPT !.proxy = proxyOk]
            /\ IF InvocaNodo(proxyOk, envArgs.existe, leeOk)
               THEN /\ envPc' = "remoto"
                    /\ envRes' = envRes
               ELSE /\ envPc' = "fin"
                    /\ envRes' = ResultadoEnvio(n, proxyOk, envArgs.existe, leeOk,
                                                "excepcion", FALSE, None)
    /\ UNCHANGED <<envInvocado, dirOk, nodoVivo>>
    /\ UNCHANGED otrosEnvio

\* proxy.procesar_con_archivo is invoked on the node; its answer is saved,
\* or the call raises.
EnvRemoto ==
    /\ envPc = "remoto"
    /\ envInvocado' = TRUE
    /\ LET n == envArgs.nodo
       IN \E remoto \in RemotosDe(nodoVivo[n]), guardaOk \in BOOLEAN,
             nodoResp \in {None, n} :
            /\ envRes' = ResultadoEnvio(n, TRUE, TRUE, TRUE, remoto, guardaOk, nodoResp)
            /\ envArgs' = [envArgs EXCEPT !.remoto = remoto]
    /\ envPc' = "fin"
    /\ UNCHANGED <<dirOk, nodoVivo>>
    /\ UNCHANGED otrosEnvio

\* The caller has the dict; the client is free for the next job.
EnvRetornar ==
    /\ envPc = "fin"
    /\ envPc' = "libre"
    /\ UNCHANGED <<envArgs, envRes, envInvocado, dirOk, nodoVivo>>
    /\ UNCHANGED otrosEnvio

NextEnvio ==
    \/ \E n \in Nodos : CambiaDirectorio(n)
    \/ \E n \in Nodos : CambiaVivo(n)
    \/ \E n \in Nodos, existe \in BOOLEAN : EnvIniciar(n, existe)
    \/ EnvLocal
    \/ EnvRemoto
    \/ EnvRetornar

\* ------------------------------- the executor's threads under several batches
LotesPool == 1..MaxLotes

\* Sizes of the batches submitted: one image, or more than one.
TamaniosPool == {1, 2}

\* The jobs of a batch, in the order procesar_lote created them.
PoolIds(b) == SeqDe({j \in DOMAIN pool_img : pool_img[j].lote = b})

\* Worker threads that are running a work item: a job's task, or a batch's
\* _procesar_lote_async, which holds its thread until as_completed ends.
PoolOcupados ==
    Cardinality({j \in DOMAIN pool_img : pool_img[j].pc = "corre"})
    + Cardinality({b \in LotesPool : pool_lote[b] \in {"submit", "espera"}})

PoolQuieto ==
    /\ pool_cola = <<>>
    /\ pool_lote = [b \in LotesPool |-> "nuevo"]
    /\ pool_img = <<>>
    /\ pool_ret = [b \in LotesPool |-> <<>>]
    /\ pool_cerrado = "abierto"

InitPool == PoolQuieto

\* (mutation of PoolProcesarLote: it waits for a free worker thread)
PoolProcesarLote_Espera(b, n) ==
    /\ pool_lote[b] = "nuevo"
    /\ PoolOcupados < MaxWorkers
    /\ LET base == Len(pool_img)
       IN /\ pool_img' = pool_img \o
                [i \in 1..n |-> [lote |-> b, pc |-> "creado", estado |-> "pendiente"]]
          /\ IF pool_cerrado = "abierto"
             THEN /\ pool_ret' = [pool_ret EXCEPT ![b] = [i \in 1..n |-> base + i]]
                  /\ pool_cola' = Append(pool_cola, <<"lote", b>>)
                  /\ pool_lote' = [pool_lote EXCEPT ![b] = "cola"]
             ELSE /\ pool_lote' = [pool_lote EXCEPT ![b] = "rechazado"]
                  /\ UNCHANGED <<pool_ret, pool_cola>>
    /\ UNCHANGED pool_cerrado
    /\ UNCHANGED otrosPool

\* procesar_lote with n images: _crear_registros_individuales adds the rows
\* 'pendiente' and collects their ids in the order of the images; the cache
\* entry is written; executor.submit queues _procesar_lote_async and the ids
\* are returned, or, after shutdown(), executor.submit raises RuntimeError
\* and so does procesar_lote ("rechazado").
PoolProcesarLote(b, n) ==
    /\ pool_lote[b] = "nuevo"
    /\ LET base == Len(pool_img)
       IN /\ pool_img' = pool_img \o
                [i \in 1..n |-> [lote |-> b, pc |-> "creado", estado |-> "pendiente"]]
          /\ IF pool_cerrado = "abierto"
             THEN /\ pool_ret' = [pool_ret EXCEPT ![b] = [i \in 1..n |-> base + i]]
                  /\ pool_cola' = Append(pool_cola, <<"lote", b>>)
                  /\ pool_lote' = [pool_lote EXCEPT ![b] = "cola"]
             ELSE /\ pool_lote' = [pool_lote EXCEPT ![b] = "rechazado"]
                  /\ UNCHANGED <<pool_ret, pool_cola>>
    /\ UNCHANGED pool_cerrado
    /\ UNCHANGED otrosPool

\* A free worker thread takes the oldest work item: a batch.
PoolTomarLote(b) ==
    /\ pool_cola # <<>> /\ Head(pool_cola) = <<"lote", b>>
    /\ PoolOcupados < MaxWorkers
    /\ pool_cola' = Tail(pool_cola)
    /\ pool_lote' = [pool_lote EXCEPT ![b] = "submit"]
    /\ UNCHANGED <<pool_img, pool_ret, pool_cerrado>>
    /\ UNCHANGED otrosPool

\* _procesar_lote_async, one turn of the submit loop: the next job of the
\* batch is queued; after the last one the thread waits in as_completed.
\* After shutdown() executor.submit raises RuntimeError, which the outer
\* except Exception catches: the function ends, the jobs not yet submitted
\* are never run.
PoolSubmitImagen(b) ==
    /\ pool_lote[b] = "submit"
    /\ LET creados == {j \in DOMAIN pool_img :
                          pool_img[j].lote = b /\ pool_img[j].pc = "creado"}
           j == CHOOSE x \in creados : \A y \in creados : x <= y
       IN IF pool_cerrado = "abierto"
          THEN /\ pool_cola' = Append(pool_cola, <<"img", j>>)
               /\ pool_img' = [pool_img EXCEPT ![j].pc = "cola"]
               /\ pool_lote' = [pool_lote EXCEPT ![b] =
                                   IF creados = {j} THEN "espera" ELSE "submit"]
          ELSE /\ pool_lote' = [pool_lote EXCEPT ![b] = "fin"]
               /\ UNCHANGED <<pool_cola, pool_img>>
    /\ UNCHANGED <<pool_ret, pool_cerrado>>
    /\ UNCHANGED otrosPool

\* (mutation of PoolTomarImagen: a task starts although no thread is free)
PoolTomarImagen_SinLimite(j) ==
    /\ pool_cola # <<>> /\ Head(pool_cola) = <<"img", j>>
    /\ pool_cola' = Tail(pool_cola)
    /\ pool_img' = [pool_img EXCEPT ![j].pc = "corre", ![j].estado = "procesando"]
    /\ UNCHANGED <<pool_lote, pool_ret, pool_cerrado>>
    /\ UNCHANGED otrosPool

\* A free worker thread takes the oldest work item: a job, whose task sets
\* its row to 'procesando' first.
PoolTomarImagen(j) ==
    /\ pool_cola # <<>> /\ Head(pool_cola) = <<"img", j>>
    /\ PoolOcupados < MaxWorkers
    /\ pool_cola' = Tail(pool_cola)
    /\ pool_img' = [pool_img EXCEPT ![j].pc = "corre", ![j].estado = "procesando"]
    /\ UNCHANGED <<pool_lote, pool_ret, pool_cerrado>>
    /\ UNCHANGED otrosPool

\* The job's task ends: selection, dispatch and row update are over, the
\* thread is free.
PoolTerminar(j, estado) ==
    /\ pool_img[j].pc = "corre"
    /\ pool_img' = [pool_img EXCEPT ![j].pc = "fin", ![j].estado = estado]
    /\ UNCHANGED <<pool_cola, pool_lote, pool_ret, pool_cerrado>>
    /\ UNCHANGED otrosPool

\* as_completed has yielded every future: _procesar_lote_async ends.
PoolRecoger(b) ==
    /\ pool_lote[b] = "espera"
    /\ \A j \in Rango(PoolIds(b)) : pool_img[j].pc = "fin"
    /\ pool_lote' = [pool_lote EXCEPT ![b] = "fin"]
    /\ UNCHANGED <<pool_cola, pool_img, pool_ret, pool_cerrado>>
    /\ UNCHANGED otrosPool

\* The hour of as_completed is over with futures not done: their rows are
\* set to 'error' and _procesar_lote_async ends (by its handler or by the
\* exception); the tasks stay queued or running.
PoolVence(b) ==
    /\ pool_lote[b] = "espera"
    /\ \E j \in Rango(PoolIds(b)) : pool_img[j].pc # "fin"
    /\ pool_img' = [j \in DOMAIN pool_img |->
                      IF pool_img[j].lote = b /\ pool_img[j].pc # "fin"
                      THEN [pool_img[j] EXCEPT !.estado = "error"]
                      ELSE pool_img[j]]
    /\ pool_lote' = [pool_lote EXCEPT ![b] = "fin"]
    /\ UNCHANGED <<pool_cola, pool_ret, pool_cerrado>>
    /\ UNCHANGED otrosPool

\* shutdown() is called: executor.shutdown(wait=True) sets the executor's
\* shutdown flag and starts to wait for the worker threads.
PoolShutdown ==
    /\ pool_cerrado = "abierto"
    /\ pool_cerrado' = "cerrando"
    /\ UNCHANGED <<pool_cola, pool_lote, pool_img, pool_ret>>
    /\ UNCHANGED otrosPool

\* The worker threads have run every queued work item and ended: shutdown()
\* returns.
PoolShutdownRetorna ==
    /\ pool_cerrado = "cerrando"
    /\ pool_cola = <<>>
    /\ PoolOcupados = 0
    /\ pool_cerrado' = "cerrado"
    /\ UNCHANGED <<pool_cola, pool_lote, pool_img, pool_ret>>
    /\ UNCHANGED otrosPool

NextPool ==
    \/ \E b \in LotesPool, n \in TamaniosPool : PoolProcesarLote(b, n)
    \/ \E b \in LotesPool : PoolTomarLote(b)
    \/ \E b \in LotesPool : PoolSubmitImagen(b)
    \/ \E j \in DOMAIN pool_img : PoolTomarImagen(j)
    \/ \E j \in DOMAIN pool_img, e \in {"completado", "error"} : PoolTerminar(j, e)
    \/ \E b \in LotesPool : PoolRecoger(b)
    \/ \E b \in LotesPool : PoolVence(b)
    \/ PoolShutdown
    \/ PoolShutdownRetorna

\* ---------------------------------------- queries on the cache and the store
\* The batches submitted: two are enough for a batch of another owner and
\* for a history of more than one entry.
LotesCons == {1, 2}

\* An id_lote no batch has.
LoteInexistente == 3

\* The callers: the owner of a batch and somebody else.
UsuariosCons == {1, 2}

\* Size of the batches submitted. (The store lookup can still resolve an
\* id_lote to rows of more than one batch.)
TamaniosCons == {1}

\* limite >= 1 and offset >= 0 of the history query
Limites == {1, 2}
Offsets == {0, 1, 2}

\* ProcesadorLoteIndividual.obtener_detalle_imagenes (None is NoEncontrado):
\* the rows ordered by fecha_creacion, which is the order of their ids.
obtener_detalle_imagenes(b, u) ==
    LET enCache == b \in DOMAIN lotes_activos
        ids == IF enCache THEN Ids(b) ELSE IdsPorLote(b, u)
        filas == SeqDe({j \in DOMAIN db : EnSeq(j, ids)})
    IN IF ~enCache /\ ids = <<>> THEN NoEncontrado
       ELSE IF enCache /\ lotes_activos[b].id_usuario # u THEN NoEncontrado
       ELSE IF filas = <<>> THEN NoEncontrado
       ELSE [hallado |-> TRUE,
             id_lote |-> b,
             imagenes |-> [i \in 1..Len(filas) |->
                             [id_procesamiento |-> filas[i],
                              estado |-> db[filas[i]].estado,
                              nodo |-> db[filas[i]].id_nodo,
                              error |-> db[filas[i]].mensaje_error]],
             total |-> Len(filas)]

\* self.lotes_activos.items(): the cached batches in the order of insertion.
LotesEnOrden ==
    [i \in 1..Cardinality(DOMAIN lotes_activos) |->
        CHOOSE b \in DOMAIN lotes_activos : lotes_activos[b].orden = i]

\* The caller's rows among the ids of cached batch b (lote_procs).
LoteProcs(b, u) ==
    {j \in DOMAIN db : db[j].id_usuario = u /\ EnSeq(j, Ids(b))}

\* The entry obtener_historial_usuario appends for cached batch b.
EntradaHistorial(b, u) ==
    [id_lote |-> b,
     total_imagenes |-> Cardinality(LoteProcs(b, u)),
     completados |-> Cardinality({j \in LoteProcs(b, u) : db[j].estado = "completado"}),
     errores |-> Cardinality({j \in LoteProcs(b, u) : db[j].estado = "error"}),
     estado |-> lotes_activos[b].estado,
     fecha_inicio |-> lotes_activos[b].fecha_inicio,
     fecha_fin |-> lotes_activos[b].fecha_fin]

\* Its loop over the cache: the caller's batches that have rows.
RECURSIVE LotesHist(_, _)
LotesHist(orden, u) ==
    IF orden = <<>> THEN <<>>
    ELSE (IF /\ lotes_activos[Head(orden)].id_usuario = u
             /\ LoteProcs(Head(orden), u) # {}
          THEN <<EntradaHistorial(Head(orden), u)>>
          ELSE <<>>) \o LotesHist(Tail(orden), u)

\* lotes_hist.sort(key = fecha_inicio, reverse = True): the sort is stable,
\* entries of one fecha_inicio keep the order they had.
RECURSIVE InsertarPorFecha(_, _)
InsertarPorFecha(s, e) ==
    IF s = <<>> THEN <<e>>
    ELSE IF Head(s).fecha_inicio >= e.fecha_inicio
         THEN <<Head(s)>> \o InsertarPorFecha(Tail(s), e)
         ELSE <<e>> \o s

RECURSIVE OrdenarPorFecha(_)
OrdenarPorFecha(s) ==
    IF s = <<>> THEN <<>>
    ELSE InsertarPorFecha(OrdenarPorFecha(SubSeq(s, 1, Len(s) - 1)), s[Len(s)])

\* lotes_hist[offset:offset + limite]
Rebanada(s, offset, limite) ==
    LET fin == IF offset + limite < Len(s) THEN offset + limite ELSE Len(s)
    IN [i \in 1..(IF fin > offset THEN fin - offset ELSE 0) |-> s[offset + i]]

\* ProcesadorLoteIndividual.obtener_historial_usuario
obtener_historial_usuario(u, limite, offset) ==
    Rebanada(OrdenarPorFecha(LotesHist(LotesEnOrden, u)), offset, limite)

SinConsulta == [op |-> "", lote |-> None, usuario |-> None, limite |-> 0,
                offset |-> 0, res |-> NoEncontrado, repetida |-> FALSE]

\* The record of a query that returned res.
Consulta(op, b, u, limite, offset, res) ==
    [op |-> op, lote |-> b, usuario |-> u, limite |-> limite, offset |-> offset,
     res |-> res,
     repetida |-> /\ ultConsulta.op = op /\ ultConsulta.lote = b
                  /\ ultConsulta.usuario = u /\ ultConsulta.limite = limite
                  /\ ultConsulta.offset = offset]

ConsQuieto ==
    /\ reloj = 0
    /\ ultConsulta = SinConsulta

InitCons == ConsQuieto

\* procesar_lote of user u with n images whose file names spell batch id m
\* (None: none): the rows and the cache entry. The id_lote is a fresh uuid,
\* here the next number; fecha_inicio is datetime.now(), which may read the
\* same as the time before.
ConsProcesarLote(b, u, n, m) ==
    /\ \A j \in DOMAIN db : db[j].ruta_entrada.lote # b
    /\ \A c \in LotesCons : c < b => \E j \in DOMAIN db : db[j].ruta_entrada.lote = c
    /\ m # b
    /\ LET base == Len(db)
           fila == [id_usuario |-> u, ruta_entrada |-> [lote |-> b, nombre |-> m],
                    estado |-> "pendiente", mensaje_error |-> "",
                    id_nodo |-> None, ruta_resultado |-> FALSE]
       IN /\ db' = db \o [i \in 1..n |-> fila]
          /\ \E t \in {reloj, reloj + 1} :
               /\ reloj' = t
               /\ lotes_activos' = lotes_activos @@
                    (b :> [id_usuario |-> u, total_imagenes |-> n,
                           ids_procesamiento |-> [i \in 1..n |-> base + i],
                           estado |-> "procesando", completados |-> Ausente,
                           errores |-> Ausente, fecha_fin |-> FALSE,
                           fecha_inicio |-> t,
                           orden |-> Cardinality(DOMAIN lotes_activos) + 1])
    /\ ultConsulta' = SinConsulta
    /\ UNCHANGED otrosCons

\* A task of a batch of this process moves its job's row.
ConsTransicion(j, e) ==
    /\ db[j].ruta_entrada.lote \in DOMAIN lotes_activos
    /\ <<db[j].estado, e>> \in {<<"pendiente", "procesando">>,
                                <<"procesando", "completado">>,
                                <<"procesando", "error">>}
    /\ db' = [db EXCEPT ![j].estado = e]
    /\ ultConsulta' = SinConsulta
    /\ UNCHANGED <<lotes_activos, reloj>>
    /\ UNCHANGED otrosCons

\* _procesar_lote_async of a batch whose jobs are over stores its final
\* state: assignments to keys of lotes_activos[id_lote], made one after the
\* other by a worker thread that holds no lock. No query reads 'completados'
\* or 'errores' from the cache, so their assignments are taken together with
\* that of 'estado'; the one of 'fecha_fin' is ConsFechaFin.
ConsFinalizar(b) ==
    /\ b \in DOMAIN lotes_activos
    /\ lotes_activos[b].estado = "procesando"
    /\ \A j \in Rango(Ids(b)) : db[j].estado \in {"completado", "error"}
    /\ LET completados == Cardinality({j \in Rango(Ids(b)) :
                                          db[j].estado = "completado"})
           total == Len(Ids(b))
       IN lotes_activos' = [lotes_activos EXCEPT
                               ![b].estado = EstadoFinal(completados, total),
                               ![b].completados = completados,
                               ![b].errores = total - completados]
    /\ ultConsulta' = SinConsulta
    /\ UNCHANGED <<db, reloj>>
    /\ UNCHANGED otrosCons

\* The last of these assignments: lotes_activos[id_lote]['fecha_fin'].
ConsFechaFin(b) ==
    /\ b \in DOMAIN lotes_activos
    /\ lotes_activos[b].errores # Ausente
    /\ ~lotes_activos[b].fecha_fin
    /\ lotes_activos' = [lotes_activos EXCEPT ![b].fecha_fin = TRUE]
    /\ ultConsulta' = SinConsulta
    /\ UNCHANGED <<db, reloj>>
    /\ UNCHANGED otrosCons

\* _procesar_lote_async of a batch ends in its outer 'except Exception'
\* (executor.submit refused after shutdown, a TimeoutError that no clause
\* before it catches, a failure of the session): the cache says 'error', the
\* tasks already in the pool go on.
ConsExcept(b) ==
    /\ b \in DOMAIN lotes_activos
    /\ lotes_activos[b].estado = "procesando"
    /\ lotes_activos' = [lotes_activos EXCEPT ![b].estado = "error"]
    /\ ultConsulta' = SinConsulta
    /\ UNCHANGED <<db, reloj>>
    /\ UNCHANGED otrosCons

\* The process is started again: lotes_activos is empty, the rows remain.
Reiniciar ==
    /\ lotes_activos # <<>>
    /\ lotes_activos' = <<>>
    /\ ultConsulta' = SinConsulta
    /\ UNCHANGED <<db, reloj>>
    /\ UNCHANGED otrosCons

\* (mutation of ConsultarEstado: the status computed is stored in the cache)
ConsultarEstado_Escribe(b, u) ==
    /\ ultConsulta' = Consulta("estado", b, u, 0, 0, obtener_estado_lote(b, u))
    /\ lotes_activos' =
          IF b \in DOMAIN lotes_activos /\ obtener_estado_lote(b, u).hallado
          THEN [lotes_activos EXCEPT ![b].estado = obtener_estado_lote(b, u).estado]
          ELSE lotes_activos
    /\ UNCHANGED <<db, reloj>>
    /\ UNCHANGED otrosCons

\* A call of obtener_estado_lote(id_lote, id_usuario).
ConsultarEstado(b, u) ==
    /\ ultConsulta' = Consulta("estado", b, u, 0, 0, obtener_estado_lote(b, u))
    /\ UNCHANGED <<db, lotes_activos, reloj>>
    /\ UNCHANGED otrosCons

\* A call of obtener_detalle_imagenes(id_lote, id_usuario).
ConsultarDetalle(b, u) ==
    /\ ultConsulta' = Consulta("detalle", b, u, 0, 0, obtener_detalle_imagenes(b, u))
    /\ UNCHANGED <<db, lotes_activos, reloj>>
    /\ UNCHANGED otrosCons

\* A call of obtener_historial_usuario(usuario_id, limite, offset).
ConsultarHistorial(u, limite, offset) ==
    /\ ultConsulta' = Consulta("historial", None, u, limite, offset,
                          [hallado |-> TRUE,
                           lotes |-> obtener_historial_usuario(u, limite, offset)])
    /\ UNCHANGED <<db, lotes_activos, reloj>>
    /\ UNCHANGED otrosCons

NextCons ==
    \/ \E b \in LotesCons : \E u \in Duenos(b), n \in TamaniosCons,
          m \in LotesCons \cup {None} : ConsProcesarLote(b, u, n, m)
    \/ \E j \in DOMAIN db, e \in {"procesando", "completado", "error"} :
          ConsTransicion(j, e)
    \/ \E b \in LotesCons : ConsFinalizar(b)
    \/ \E b \in LotesCons : ConsFechaFin(b)
    \/ \E b \in LotesCons : ConsExcept(b)
    \/ Reiniciar
    \/ \E b \in LotesCons \cup {LoteInexistente}, u \in UsuariosCons :
          ConsultarEstado(b, u)
    \/ \E b \in LotesCons \cup {LoteInexistente}, u \in UsuariosCons :
          ConsultarDetalle(b, u)
    \/ \E u \in UsuariosCons, limite \in Limites, offset \in Offsets :
          ConsultarHistorial(u, limite, offset)

\* ------------------ the thread-per-image coordinator (procesador_lotes.py)
\* The images of a request, by their position in 'imagenes'.
ImagenesSol == 1..MaxImagenes

SinHilo == [pc |-> "no", exito |-> FALSE]

SinRetorno == [estado |-> "", imagenes_procesadas |-> 0, imagenes_exitosas |-> 0]

\* The dict of the outer except of crear_solicitud_procesamiento.
RetornoError == [estado |-> "error", imagenes_procesadas |-> 0, imagenes_exitosas |-> 0]

SolQuieto ==
    /\ solPc = "libre"
    /\ solN = 0
    /\ solK = 0
    /\ hilos = [k \in ImagenesSol |-> SinHilo]
    /\ imagenes_bd = [k \in ImagenesSol |-> ""]
    /\ resultados = <<>>
    /\ retorno = SinRetorno

InitSol == SolQuieto

\* sum(1 for r in resultados if r.get('exito', False))
procesamientos_exitosos(res) ==
    Cardinality({i \in 1..Len(res) : res[i].exito})

\* estado_final of crear_solicitud_procesamiento.
EstadoSolicitud(exitosos, total) ==
    IF exitosos = total THEN "completado"
    ELSE IF exitosos > 0 THEN "parcial"
    ELSE "fallido"

\* crear_solicitud_procesamiento with n images, up to the loop: the request
\* rows are added in both stores, or a statement raises and the outer except
\* returns the error dict.
SolCrear(n, ok) ==
    /\ solPc = "libre"
    /\ IF ok
       THEN /\ solPc' = "lanzar"
            /\ solN' = n
            /\ solK' = 1
            /\ UNCHANGED retorno
       ELSE /\ solPc' = "fin"
            /\ retorno' = RetornoError
            /\ UNCHANGED <<solN, solK>>
    /\ UNCHANGED <<hilos, imagenes_bd, resultados>>
    /\ UNCHANGED otrosSol

\* One turn of 'for i, img_data in enumerate(imagenes)': the row of the image
\* is added 'procesando' and its thread is started; or a statement of the
\* turn raises before the thread is started, the session is rolled back and
\* the outer except returns the error dict while the threads started before
\* go on.
SolLanzar(ok) ==
    /\ solPc = "lanzar"
    /\ LET k == solK
       IN IF ok
          THEN /\ imagenes_bd' = [imagenes_bd EXCEPT ![k] = "procesando"]
               /\ hilos' = [hilos EXCEPT ![k].pc = "corre"]
               /\ solK' = IF k = solN THEN 1 ELSE k + 1
               /\ solPc' = IF k = solN THEN "join" ELSE "lanzar"
               /\ UNCHANGED retorno
          ELSE /\ imagenes_bd' = [i \in ImagenesSol |-> ""]
               /\ retorno' = RetornoError
               /\ solPc' = "fin"
               /\ UNCHANGED <<hilos, solK>>
    /\ UNCHANGED <<solN, resultados>>
    /\ UNCHANGED otrosSol

\* (mutation of SolUnir: join() returns although the thread is running)
SolUnir_SinEsperar ==
    /\ solPc = "join"
    /\ solK' = IF solK = solN THEN solK ELSE solK + 1
    /\ solPc' = IF solK = solN THEN "calcular" ELSE "join"
    /\ UNCHANGED <<solN, hilos, imagenes_bd, resultados, retorno>>
    /\ UNCHANGED otrosSol

\* One turn of 'for hilo in hilos: hilo.join()': it returns when the thread
\* has ended.
SolUnir ==
    /\ solPc = "join"
    /\ hilos[solK].pc = "fin"
    /\ solK' = IF solK = solN THEN solK ELSE solK + 1
    /\ solPc' = IF solK = solN THEN "calcular" ELSE "join"
    /\ UNCHANGED <<solN, hilos, imagenes_bd, resultados, retorno>>
    /\ UNCHANGED otrosSol

\* The final state is computed from resultados, stored and returned; or the
\* commit raises, the session is rolled back and the error dict is returned.
SolCalcular(ok) ==
    /\ solPc = "calcular"
    /\ LET exitosos == procesamientos_exitosos(resultados)
       IN IF ok
          THEN /\ retorno' = [estado |-> EstadoSolicitud(exitosos, solN),
                              imagenes_procesadas |-> solN,
                              imagenes_exitosas |-> exitosos]
               /\ UNCHANGED imagenes_bd
          ELSE /\ retorno' = RetornoError
               /\ imagenes_bd' = [i \in ImagenesSol |-> ""]
    /\ solPc' = "fin"
    /\ UNCHANGED <<solN, solK, hilos, resultados>>
    /\ UNCHANGED otrosSol

\* _procesar_imagen_thread: ejecutar_trabajo_en_nodo returns a dict with
\* 'exito' true or not, or raises: the except branch appends a failed result
\* and the thread ends.
HiloEjecutar(k, r) ==
    /\ hilos[k].pc = "corre"
    /\ IF r = "excepcion"
       THEN /\ hilos' = [hilos EXCEPT ![k] = [pc |-> "fin", exito |-> FALSE]]
            /\ resultados' = Append(resultados, [hilo |-> k, exito |-> FALSE])
       ELSE /\ hilos' = [hilos EXCEPT ![k] = [pc |-> "grabar", exito |-> r = "exito"]]
            /\ UNCHANGED resultados
    /\ UNCHANGED <<solPc, solN, solK, imagenes_bd, retorno>>
    /\ UNCHANGED otrosSol

\* _procesar_imagen_thread, the row update in a session of its own and the
\* append: the row is found and updated ("hallada"), it is not found
\* ("ninguna": the coordinator's session has flushed it and not committed, or
\* has rolled it back), or the session raises and the except branch appends a
\* failed result.
HiloGrabar(k, fila) ==
    /\ hilos[k].pc = "grabar"
    /\ imagenes_bd' = IF fila = "hallada" /\ imagenes_bd[k] # ""
                      THEN [imagenes_bd EXCEPT ![k] =
                               IF hilos[k].exito THEN "procesada" ELSE "error"]
                      ELSE imagenes_bd
    /\ resultados' = Append(resultados,
                        [hilo |-> k,
                         exito |-> IF fila = "excepcion" THEN FALSE ELSE hilos[k].exito])
    /\ hilos' = [hilos EXCEPT ![k].pc = "fin"]
    /\ UNCHANGED <<solPc, solN, solK, retorno>>
    /\ UNCHANGED otrosSol

NextSol ==
    \/ \E n \in ImagenesSol, ok \in BOOLEAN : SolCrear(n, ok)
    \/ \E ok \in BOOLEAN : SolLanzar(ok)
    \/ SolUnir
    \/ \E ok \in BOOLEAN : SolCalcular(ok)
    \/ \E k \in ImagenesSol, r \in {"exito", "fallo", "excepcion"} : HiloEjecutar(k, r)
    \/ \E k \in ImagenesSol, fila \in {"hallada", "ninguna", "excepcion"} : HiloGrabar(k, fila)

\* ---------------------------------------------------------- specifications
LoteQuieto == InitLote /\ aliasTimeout

\* The batch coordinator (procesador_imagen_individual.py).
Init == InitLote /\ NodosQuieto /\ SelQuieto /\ EnvioQuieto /\ PoolQuieto /\ ConsQuieto
    /\ SolQuieto

Next == NextLote

Spec == Init /\ [][Next]_vars

\* The node registry and its calling threads (gestor_nodos.py).
InitRegistro == InitNodos /\ LoteQuieto /\ SelQuieto /\ EnvioQuieto /\ PoolQuieto /\ ConsQuieto
    /\ SolQuieto

NextRegistro == NextNodos

SpecNodos == InitRegistro /\ [][NextRegistro]_vars

\* Node selection called again and again (ClienteNodoWorker.py, gestor_nodos.py).
InitSeleccion == InitSel /\ LoteQuieto /\ NodosQuieto /\ EnvioQuieto /\ PoolQuieto /\ ConsQuieto
    /\ SolQuieto

NextSeleccion == NextSel

SpecSel == InitSeleccion /\ [][NextSeleccion]_vars

\* Dispatches of the remote job client (ClienteNodoWorker.py).
InitDespacho == InitEnvio /\ LoteQuieto /\ NodosQuieto /\ SelQuieto /\ PoolQuieto /\ ConsQuieto
    /\ SolQuieto

NextDespacho == NextEnvio

SpecEnvio == InitDespacho /\ [][NextDespacho]_vars

\* The executor with several batches submitted (procesador_imagen_individual.py).
InitEjecutor == InitPool /\ LoteQuieto /\ NodosQuieto /\ SelQuieto /\ EnvioQuieto /\ ConsQuieto
    /\ SolQuieto

NextEjecutor == NextPool

SpecPool == InitEjecutor /\ [][NextEjecutor]_vars

\* The queries, with batches of several owners and restarts
\* (procesador_imagen_individual.py).
InitConsulta ==
    InitCons /\ LoteQuieto /\ NodosQuieto /\ SelQuieto /\ EnvioQuieto /\ PoolQuieto /\ SolQuieto

NextConsulta == NextCons

SpecConsulta == InitConsulta /\ [][NextConsulta]_vars

\* The thread-per-image coordinator (procesador_lotes.py).
InitSolicitud ==
    InitSol /\ LoteQuieto /\ NodosQuieto /\ SelQuieto /\ EnvioQuieto /\ PoolQuieto
        /\ ConsQuieto

NextSolicitud == NextSol

SpecSolicitud == InitSolicitud /\ [][NextSolicitud]_vars

\* ------------------------------------------------------------------ claims

C2_ReglaAgregada ==
    \A b \in Lotes, u \in Usuarios :
        LET r == obtener_estado_lote(b, u)
        IN r.hallado =>
             r.estado = IF r.completados = r.total_imagenes THEN "completado"
                        ELSE IF r.errores = r.total_imagenes THEN "fallido"
                        ELSE IF r.procesando + r.pendientes > 0 THEN "procesando"
                        ELSE "parcial"

\* C3: the status of a row only moves pendiente -> procesando -> completado or
\* error (or pendiente -> error, forced by the deadline); a row that is
\* completado or error never changes its status.
TransicionesJob == {<<"pendiente", "procesando">>, <<"procesando", "completado">>,
                    <<"procesando", "error">>, <<"pendiente", "error">>}

C3_MaquinaDeEstados ==
    [][\A j \in DOMAIN db :
          \/ db'[j].estado = db[j].estado
          \/ <<db[j].estado, db'[j].estado>> \in TransicionesJob]_vars

\* C4: once the deadline has fired and the coordinator has finalized the batch,
\* no row of the batch changes any more (late results are not applied).
Finalizado(b) == lotePc[b] = "fin" /\ lotes_activos[b].fecha_fin

C4_SinResultadosTardios ==
    [][\A b \in Lotes :
          (vencido[b] /\ Finalizado(b)) =>
              \A j \in Rango(Ids(b)) : db'[j] = db[j]]_vars

\* C5: when the deadline has elapsed with jobs unresolved and the coordinator
\* has ended, the batch is finalized (finish time set, final status recorded)
\* and every job whose future is still not done has been forced to 'error'
\* with the timeout message.
C5_VencimientoFinaliza ==
    \A b \in Lotes :
        (vencido[b] /\ lotePc[b] = "fin") =>
            /\ lotes_activos[b].fecha_fin
            /\ lotes_activos[b].estado \in {"completado", "parcial", "fallido"}
            /\ \A j \in Rango(Ids(b)) : ~Hecho(j) => j \in forzados

\* C6: select_node never returns a node whose status is not active at the
\* moment of return: whenever obtener_nodo_disponible returns a node to a
\* thread, while other threads refresh the registry or mark nodes inactive,
\* the entry of that node in nodos_registrados has 'activo' set.
C6_DevueltoActivo ==
    [][\A t \in Hilos :
          (hiloPc[t] = "elegir" /\ hiloPc'[t] = "procesar")
              => InfoReg[mejor_nodo'[t]].activo]_vars

\* C9: after a node has been marked inactive following a dispatch failure, no
\* call of select_node returns it until a later probe of it succeeds: no
\* thread is returned a node that is in marcados.
C9_MarcadoNoDevuelto ==
    [][\A t \in Hilos :
          (hiloPc[t] = "elegir" /\ hiloPc'[t] = "procesar")
              => mejor_nodo'[t] \notin marcados]_vars

\* A step that is a call of select_node, of either implementation.
EsLlamada == LlamarBalanceador \/ LlamarRegistro

\* The active nodes as the called implementation sees them: the balancer
\* takes the listed nodes that answer with estado 'activo', the registry the
\* listed nodes that answer.
ActivosDe(quien) ==
    {n \in Rango(listar_nodos_disponibles(nsLista)) :
        /\ nodoEst[n].resp
        /\ quien = "balanceador" => nodoEst[n].estado = "activo"}

\* The nodes it chooses among: the registry leaves out those with 5 jobs or more.
CandidatosDe(quien) ==
    {n \in ActivosDe(quien) :
        quien = "registro" => nodoEst[n].trabajos < LimiteTrabajos}

PosEn(n, s) == CHOOSE i \in 1..Len(s) : s[i] = n

\* Several active nodes share the minimum active_job_count.
Empate(quien) ==
    \E a, b \in ActivosDe(quien) :
        /\ a # b
        /\ nodoEst[a].trabajos = nodoEst[b].trabajos
        /\ \A m \in ActivosDe(quien) : nodoEst[a].trabajos <= nodoEst[m].trabajos

C10_ArchivoAusente ==
    (envPc = "fin" /\ ~envArgs.existe) =>
        /\ ~envInvocado
        /\ ~envRes.exito
        /\ envRes.error = IF envArgs.proxy THEN "Archivo de entrada no existe"
                          ELSE "Nodo no disponible"

\* C10 as stated: the outcome is "input file missing" and the node is not
\* invoked, for every state of the node and of the name server.
C10_Original ==
    (envPc = "fin" /\ ~envArgs.existe) =>
        /\ ~envInvocado
        /\ ~envRes.exito
        /\ envRes.error = "Archivo de entrada no existe"

\* A dispatch of a job without input file has returned, the node resolved.
C10_Testigo ==
    /\ envPc = "fin"
    /\ ~envArgs.existe
    /\ envArgs.proxy
    /\ envRes.error = "Archivo de entrada no existe"

\* The error messages enviar_trabajo_con_archivos writes itself, each for one
\* kind of failure, and the kind each stands for.
ClaseDeMensaje ==
    [m \in {"Nodo no disponible", "Archivo de entrada no existe", "excepcion",
            "Timeout despues de 300s", "Error de comunicacion con el nodo",
            "Error guardando resultado"} |->
        CASE m = "Nodo no disponible" -> "NodeUnavailable"
          [] m = "Archivo de entrada no existe" -> "LocalIOError"
          [] m = "Error guardando resultado" -> "LocalIOError"
          [] m = "Timeout despues de 300s" -> "CommunicationTimeout"
          [] m = "Error de comunicacion con el nodo" -> "CommunicationFailure"
          [] m = "excepcion" -> "Exception"]

C12_SinReenvio ==
    \A j \in DOMAIN imgHist :
        /\ imgHist[j].sel <= 1
        /\ imgHist[j].inv <= 1
        /\ imgHist[j].inv = 1 => imgHist[j].conNodo
        /\ (imgHist[j].sel = 1 /\ ~imgHist[j].conNodo) =>
              /\ imgPc[j] \in {"grabar", "retorno", "fin"}
              /\ imgHist[j].inv = 0
              /\ ~imgRes[j].exito

C12_Testigo ==
    \E j, k \in DOMAIN imgHist :
        /\ imgPc[j] = "fin" /\ imgHist[j].inv = 1 /\ ~imgRes[j].exito
        /\ imgPc[k] = "fin" /\ imgHist[k].sel = 1 /\ ~imgHist[k].conNodo

\* The batch has ended and so has every task of its jobs.
LoteTerminado(b) ==
    /\ b \in DOMAIN lotes_activos
    /\ lotePc[b] = "fin"
    /\ \A j \in Rango(Ids(b)) : imgPc[j] = "fin"

\* No call of obtener_nodo_optimo made for the batch found an active node.
SinNodoActivo(b) ==
    \A j \in Rango(Ids(b)) : imgHist[j].sel = 1 /\ ~imgHist[j].conNodo

\* C13: when no selection of a batch found an active node, then once the
\* batch and its tasks have ended every row is 'error' with the message
\* 'No hay nodos disponibles', proxy.procesar_con_archivo was never called,
\* and the batch status is 'fallido', stored and queried.
C13_SinNodosFallido ==
    \A b \in Lotes :
        (LoteTerminado(b) /\ SinNodoActivo(b)) =>
            /\ \A j \in Rango(Ids(b)) :
                  /\ db[j].estado = "error"
                  /\ db[j].mensaje_error = "No hay nodos disponibles"
                  /\ imgHist[j].inv = 0
            /\ lotes_activos[b].estado = "fallido"
            /\ obtener_estado_lote(b, lotes_activos[b].id_usuario).estado = "fallido"

\* Job j of a batch failed with a communication error of its node and job k
\* of the same batch completed.
FalloYExito(j, k) ==
    /\ imgHist[j].inv = 1
    /\ db[j].estado = "error"
    /\ db[j].mensaje_error = "Error de comunicacion con el nodo"
    /\ imgHist[k].inv = 1
    /\ db[k].estado = "completado"

\* C14: a batch of two jobs that ended within its deadline, one job failed
\* by a communication error of its node and the other completed, is
\* reported 'parcial' by obtener_estado_lote.
C14_ParcialConsultado ==
    \A b \in Lotes :
        (/\ LoteTerminado(b) /\ ~vencido[b]
         /\ Len(Ids(b)) = 2
         /\ FalloYExito(Ids(b)[1], Ids(b)[2]) \/ FalloYExito(Ids(b)[2], Ids(b)[1]))
        => obtener_estado_lote(b, lotes_activos[b].id_usuario).estado = "parcial"

\* C15: the node recorded for a completed job is the node that
\* obtener_nodo_optimo returned for it: the result of a successful dispatch
\* names that node, and the row update writes the node the result names.
C15_NodoAsignado ==
    [][\A j \in DOMAIN imgPc :
          /\ (imgPc[j] = "remoto" /\ imgPc'[j] = "grabar" /\ imgRes'[j].exito)
                => imgRes'[j].nodo = imgNodo[j]
          /\ (imgPc[j] = "grabar" /\ imgPc'[j] = "retorno" /\ imgRes[j].exito)
                => db'[j].id_nodo = imgRes[j].nodo]_vars

\* The step in which procesar_lote of batch b returns.
PoolRetorna(b) == pool_lote[b] = "nuevo" /\ pool_lote'[b] \notin {"nuevo", "rechazado"}

\* C16: procesar_lote can return whatever the worker threads are doing, and
\* when it returns every job of the batch has its row 'pendiente', no task
\* of the batch has started, only _procesar_lote_async has been queued, and
\* the ids returned are the batch's jobs in the order of the images.
C16_RetornaSinEsperar ==
    /\ [](\A b \in LotesPool :
            pool_lote[b] = "nuevo" =>
                \A n \in TamaniosPool : ENABLED PoolProcesarLote(b, n))
    /\ [][\A b \in LotesPool :
            PoolRetorna(b) =>
                /\ pool_ret'[b] = PoolIds(b)'
                /\ pool_ret'[b] # <<>>
                /\ \A i \in 1..Len(pool_ret'[b]) :
                      /\ pool_img'[pool_ret'[b][i]].estado = "pendiente"
                      /\ pool_img'[pool_ret'[b][i]].pc = "creado"
                /\ pool_cola' = Append(pool_cola, <<"lote", b>>)
                /\ pool_lote'[b] = "cola"]_vars

\* procesar_lote has returned for a batch while every worker thread was busy.
C16_Testigo ==
    \E b \in LotesPool :
        /\ pool_lote[b] = "cola"
        /\ PoolOcupados = MaxWorkers
        /\ Len(pool_ret[b]) > 1

\* C17: the jobs whose task a worker thread is running, and the rows that
\* are 'procesando', are at most max_workers, all batches together.
C17_LimiteDeWorkers ==
    /\ Cardinality({j \in DOMAIN pool_img : pool_img[j].pc = "corre"}) <= MaxWorkers
    /\ Cardinality({j \in DOMAIN pool_img : pool_img[j].estado = "procesando"})
          <= MaxWorkers
    /\ PoolOcupados <= MaxWorkers

\* Every thread runs a job's task, and the jobs are of more than one batch.
C17_Testigo ==
    /\ Cardinality({j \in DOMAIN pool_img : pool_img[j].pc = "corre"}) = MaxWorkers
    /\ \E j, k \in DOMAIN pool_img :
          /\ pool_img[j].pc = "corre" /\ pool_img[k].pc = "corre"
          /\ pool_img[j].lote # pool_img[k].lote
    /\ pool_cola # <<>>

EsAjeno(b, u) ==
    \E j \in DOMAIN db : db[j].ruta_entrada.lote = b /\ db[j].id_usuario # u

\* C19: obtener_estado_lote and obtener_detalle_imagenes, called for a batch
\* by somebody who is not its owner, return None, which is what they return
\* to the same caller for an id_lote no batch has, with the batch in the
\* cache or not.
C19_AjenoNoEncontrado ==
    (/\ ultConsulta.op \in {"estado", "detalle"}
     /\ EsAjeno(ultConsulta.lote, ultConsulta.usuario))
    => /\ ultConsulta.res = NoEncontrado
       /\ ultConsulta.res =
            IF ultConsulta.op = "estado"
            THEN obtener_estado_lote(LoteInexistente, ultConsulta.usuario)
            ELSE obtener_detalle_imagenes(LoteInexistente, ultConsulta.usuario)

\* The batches user u has submitted, in flight or finished.
LotesDe(u) ==
    {db[j].ruta_entrada.lote : j \in {i \in DOMAIN db : db[i].id_usuario = u}}

\* C20: the page obtener_historial_usuario(u, limite, offset) returns holds
\* batches of u only, newest fecha_inicio first, no batch twice, and as many
\* of them as positions offset+1 .. offset+limite of a list of all the
\* batches u has submitted hold, so that the pages together hold them all.
C20_HistorialPaginado ==
    ultConsulta.op = "historial" =>
        LET lotes == ultConsulta.res.lotes
            quedan == Cardinality(LotesDe(ultConsulta.usuario)) - ultConsulta.offset
        IN /\ \A i \in 1..Len(lotes) : lotes[i].id_lote \in LotesDe(ultConsulta.usuario)
           /\ \A i, k \in 1..Len(lotes) :
                 i < k => /\ lotes[i].fecha_inicio >= lotes[k].fecha_inicio
                          /\ lotes[i].id_lote # lotes[k].id_lote
           /\ Len(lotes) = IF quedan < 0 THEN 0
                           ELSE IF quedan < ultConsulta.limite THEN quedan
                           ELSE ultConsulta.limite

\* The jobs procesar_lote created for batch b.
JobsDe(b) == {j \in DOMAIN db : db[j].ruta_entrada.lote = b}

\* C21: obtener_estado_lote and obtener_detalle_imagenes, called by its owner
\* for a batch that is no longer in the cache, resolve the jobs created for
\* that batch, all of them and no other.
C21_MiembrosDesdeBD ==
    (/\ ultConsulta.op \in {"estado", "detalle"}
     /\ ultConsulta.lote \notin DOMAIN lotes_activos
     /\ JobsDe(ultConsulta.lote) # {}
     /\ \A j \in JobsDe(ultConsulta.lote) : db[j].id_usuario = ultConsulta.usuario)
    => /\ ultConsulta.res.hallado
       /\ IF ultConsulta.op = "estado"
          THEN ultConsulta.res.total_imagenes = Cardinality(JobsDe(ultConsulta.lote))
          ELSE {ultConsulta.res.imagenes[i].id_procesamiento :
                    i \in 1..Len(ultConsulta.res.imagenes)} = JobsDe(ultConsulta.lote)

\* C22: when shutdown() has returned, every job of a batch procesar_lote had
\* accepted is 'completado' or 'error', and a batch procesar_lote refused
\* after the call of shutdown() has no rows.
C22_ShutdownDrena ==
    pool_cerrado = "cerrado" =>
        \A j \in DOMAIN pool_img :
            IF pool_lote[pool_img[j].lote] = "rechazado"
            THEN FALSE
            ELSE pool_img[j].estado \in {"completado", "error"}

\* The value a call of select_node can return: a node id or None.
ValoresSeleccion == Nodos \cup {None}

\* C23: select_node never raises: a call returns a node id or None, and it
\* returns None when the name server cannot be reached, when it lists no
\* node, and when no listed node answers its status probe (for the
\* balancer: answers it with estado 'activo').
C23_NoneSinExcepcion ==
    [][EsLlamada =>
          /\ selUlt'.res \in ValoresSeleccion
          /\ (\/ nsLista = NsCaido
              \/ ActivosDe(selUlt'.quien) = {}) => selUlt'.res = None]_vars

\* A call of the balancer has returned None, the name server out of reach
\* and a node answering 'activo' to whoever could find it.
C23_Testigo ==
    /\ selUlt.quien = "balanceador"
    /\ selCambio = "nada"
    /\ nsLista = NsCaido
    /\ selUlt.res = None
    /\ \E n \in Nodos : nodoEst[n].resp /\ nodoEst[n].estado = "activo"

\* C24: whenever at least one known node is active, select_node returns a
\* node, whatever the active_job_count the nodes report: no node is left out
\* of the selection only because of its load.
C24_SinControlDeAdmision ==
    [][EsLlamada => (ActivosDe(selUlt'.quien) # {} => selUlt'.res # None)]_vars

\* The batch statuses of the specification: pending, processing, completed,
\* partial, failed.
EstadosDeLote == {"pendiente", "procesando", "completado", "parcial", "fallido"}

\* C25: the batch status a query reports (obtener_estado_lote, every entry of
\* obtener_historial_usuario) is always one of pendiente, procesando,
\* completado, parcial, fallido, also after _procesar_lote_async has ended
\* in its outer except.
C25_EstadoEnConjunto ==
    /\ (ultConsulta.op = "estado" /\ ultConsulta.res.hallado)
          => ultConsulta.res.estado \in EstadosDeLote
    /\ ultConsulta.op = "historial"
          => \A i \in 1..Len(ultConsulta.res.lotes) :
                ultConsulta.res.lotes[i].estado \in EstadosDeLote

\* C26: obtener_estado_cluster reports, over the nodes the name server
\* lists, total_nodos = nodos_activos + nodos_inactivos, the number of listed
\* nodes, and capacidad_disponible = capacidad_total - capacidad_usada, and
\* it changes neither the cluster nor any state of the orchestrator. (The
\* steps that leave a summary in resumen are those of ResumirCluster.)
C26_ResumenCluster ==
    [][resumen'.hecho =>
          /\ resumen'.total_nodos = Len(listar_nodos_disponibles(nsLista))
          /\ resumen'.total_nodos = resumen'.nodos_activos + resumen'.nodos_inactivos
          /\ resumen'.nodos_activos = Cardinality(ActivosDe("balanceador"))
          /\ resumen'.capacidad_disponible
                = resumen'.capacidad_total - resumen'.capacidad_usada
          /\ UNCHANGED <<nsLista, nodoEst, varsNodos, varsLote, varsEnvio,
                         varsPool, varsCons>>]_vars

\* A summary has been made of two listed nodes, one active and one that
\* does not answer, with more jobs than capacity.
C26_Testigo ==
    /\ resumen.hecho
    /\ resumen.total_nodos = 2
    /\ resumen.nodos_activos = 1
    /\ \E n \in Rango(nsLista) : ~nodoEst[n].resp
    /\ resumen.capacidad_disponible < 0

\* C27: whenever a dispatch fails, the coordinator has marked the node of the
\* dispatch inactive in the registry by the time it sets the job's row to
\* 'error'.
C27_MarcadoAntesDeError ==
    [][\A j \in DOMAIN db :
          (/\ imgPc[j] = "grabar" /\ imgPc'[j] = "retorno"
           /\ imgHist[j].inv > 0
           /\ ~imgRes[j].exito)
              => /\ imgNodo[j] \in marcados
                 /\ ~InfoReg[imgNodo[j]].activo]_vars

\* C28: the batch status is not kept apart from the job states: the status
\* and the counts of completed and failed jobs that obtener_historial_usuario
\* reports for a batch are those obtener_estado_lote computes from the rows.
C28_HistorialRecalculado ==
    ultConsulta.op = "historial" =>
        \A i \in 1..Len(ultConsulta.res.lotes) :
            LET e == ultConsulta.res.lotes[i]
                r == obtener_estado_lote(e.id_lote, ultConsulta.usuario)
            IN /\ r.hallado
               /\ e.estado = r.estado
               /\ e.completados = r.completados
               /\ e.errores = r.errores

\* The statuses _procesar_lote_async stores together with fecha_fin.
EstadosFinales == {"completado", "parcial", "fallido"}

\* C29: lotes_activos is guarded against concurrent use: whatever the
\* interleaving of procesar_lote, the finalization by the worker thread and
\* the queries, a query returns and the entries it reports are whole: a
\* batch is reported with a final status exactly when it is reported with
\* its fecha_fin.
C29_EntradaEntera ==
    ultConsulta.op = "historial" =>
        \A i \in 1..Len(ultConsulta.res.lotes) :
            LET e == ultConsulta.res.lotes[i]
            IN e.fecha_fin <=> e.estado \in EstadosFinales

\* Thread t probes a node in this step (an iteration of the refresh loop).
SondeaEnPaso(t) == hiloPc[t] = "refrescar" /\ hiloK'[t] = hiloK[t] + 1

\* Thread t reads an entry of nodos_registrados in this step (an iteration
\* of the loop of obtener_nodo_disponible).
LeeEnPaso(t) == hiloPc[t] = "filtrar" /\ hiloK'[t] = hiloK[t] + 1

\* C30: the lock of the registry is held only around reads and writes of the
\* node map: no thread holds it while it probes a node or makes another
\* remote call, and a thread that reads the map does so under the lock.
C30_CandadoSoloEnMapa ==
    [][\A t \in Hilos :
          /\ SondeaEnPaso(t) => lock # t
          /\ (hiloPc[t] = "procesar" /\ hiloPc'[t] # "procesar") => lock # t
          /\ LeeEnPaso(t) => lock = t]_vars

\* C31: no node is ever dropped from the registry: every id the registry
\* enumerates has an entry, the entry of a node that did not answer at
\* discovery and has not answered since is inactive, and no refresh, failed
\* dispatch or marking removes an entry or changes the order of the ids: the
\* set of known node ids never shrinks.
C31_NuncaEliminado ==
    /\ [](/\ Rango(OrdenReg) = DOMAIN InfoReg
          /\ \A n \in DOMAIN InfoReg : ~InfoReg[n].proxy => ~InfoReg[n].activo)
    /\ [][/\ DOMAIN InfoReg \subseteq DOMAIN InfoReg'
          /\ OrdenReg' = OrdenReg]_vars

\* Of two known nodes one did not answer at discovery and the other has been
\* marked inactive after a dispatch, both refreshed by a thread since the
\* construction, and both are still known.
C31_Testigo ==
    /\ Cardinality(DOMAIN InfoReg) = 2
    /\ \E n \in DOMAIN InfoReg : ~InfoReg[n].proxy
    /\ marcados # {}
    /\ \E t \in Hilos : hiloPc[t] = "filtrar"

C33_TemporalBorrado ==
    \A j \in DOMAIN db :
        /\ j \in borrados => db[j].estado = "completado"
        /\ (Hecho(j) /\ db[j].estado = "completado") => j \in borrados

\* Every batch has stored its final state and every task has returned.
TodoTerminado ==
    /\ \A b \in Lotes : lotePc[b] = "fin"
    /\ \A j \in DOMAIN imgPc : Hecho(j)

PoolAvance ==
    \/ \E b \in LotesPool : PoolTomarLote(b) \/ PoolSubmitImagen(b) \/ PoolRecoger(b)
    \/ \E j \in DOMAIN pool_img : PoolTomarImagen(j)
    \/ \E j \in DOMAIN pool_img, e \in {"completado", "error"} : PoolTerminar(j, e)

\* A batch task waits in as_completed for jobs that have not ended.
PoolLoteEspera(b) ==
    /\ pool_lote[b] = "espera"
    /\ \E j \in Rango(PoolIds(b)) : pool_img[j].pc # "fin"

\* C35: the batch tasks and the job tasks, which share the max_workers
\* threads of one pool, never block each other: while the executor is open
\* and a batch task waits for its jobs, some task of the pool can take a
\* step, so that the batch is finalized from its jobs' results and not by
\* the end of the hour of as_completed, for any number of batches.
C35_SinBloqueoMutuo ==
    (pool_cerrado = "abierto" /\ \E b \in LotesPool : PoolLoteEspera(b))
        => ENABLED PoolAvance

\* C36: when _procesar_lote_async has finalized a batch (fecha_fin is set)
\* the stored completados and errores add up to the number of jobs of the
\* batch, on the normal path and on the deadline path, also when a job's
\* task ends between the TimeoutError and the future.done() test.
C36_ConteoCompleto ==
    \A b \in Lotes :
        (lotePc[b] = "fin" /\ lotes_activos[b].fecha_fin)
            => lotes_activos[b].completados + lotes_activos[b].errores = Len(Ids(b))

\* C37: a job is recorded 'completado' only if its result was decoded and
\* written: whenever the row update of a task sets the row to 'completado',
\* the dispatch result carries the path of the result file it wrote, also
\* when the node reports success without an encoded image.
C37_CompletadoConArchivo ==
    [][\A j \in DOMAIN imgPc :
          (imgPc[j] = "grabar" /\ imgPc'[j] = "retorno" /\ db'[j].estado = "completado")
              => imgRes[j].ruta]_vars

\* C38: procesar_lote is all-or-nothing: when it has raised ("rechazado")
\* no row of the batch remains in the store and no task of the batch is
\* queued in the pool.
C38_TodoONada ==
    \A b \in LotesPool :
        pool_lote[b] = "rechazado"
            => /\ PoolIds(b) = <<>>
               /\ \A i \in 1..Len(pool_cola) : pool_cola[i] # <<"lote", b>>

\* The results thread k has appended to resultados.
AportesDe(k) == {i \in 1..Len(resultados) : resultados[i].hilo = k}

\* The threads of the request whose result says 'exito'.
HilosExitosos ==
    {k \in 1..solN : \E i \in AportesDe(k) : resultados[i].exito}

\* C39: in crear_solicitud_procesamiento every thread appends exactly one
\* result, when it ends; and the final state is computed only when every
\* thread of the request has ended: then resultados has one result for each
\* image, and the state is 'completado' if all of them succeeded, 'parcial'
\* if some but not all did, 'fallido' if none did.
C39_EstadoTrasLosHilos ==
    /\ [](\A k \in ImagenesSol :
             Cardinality(AportesDe(k)) = IF hilos[k].pc = "fin" THEN 1 ELSE 0)
    /\ [][(solPc = "calcular" /\ retorno'.estado \notin {"", "error"})
            => /\ \A k \in 1..solN : hilos[k].pc = "fin"
               /\ Len(resultados) = solN
               /\ retorno'.imagenes_procesadas = solN
               /\ retorno'.imagenes_exitosas = Cardinality(HilosExitosos)
               /\ retorno'.estado =
                    IF HilosExitosos = 1..solN THEN "completado"
                    ELSE IF HilosExitosos # {} THEN "parcial"
                    ELSE "fallido"]_vars

\* A request of more than one image has returned 'parcial': one thread
\* succeeded, another ended with a failed result.
C39_Testigo ==
    /\ solPc = "fin"
    /\ solN > 1
    /\ retorno.estado = "parcial"
    /\ \E k \in 1..solN : hilos[k] = [pc |-> "fin", exito |-> FALSE]

====
